---------------------------- MODULE Spec2Model ----------------------------
(***************************************************************************)
(* Chat-Export-Viewer: the chunked persistence layer (services/storage),   *)
(* the message loader (hooks/useMessages), the import flow                 *)
(* (hooks/useImport driving services/parser and services/mediaMatcher),    *)
(* the media correlator, the chat view (App, hooks/useChats,               *)
(* components/ChatView), the timestamp grammar (tryParseMessageLine) and   *)
(* the file and folder selection of components/ImportModal with            *)
(* services/validation, as state machines over the IndexedDB stores.       *)
(*                                                                         *)
(* Time is scaled: an instant is a natural number of ticks and a calendar  *)
(* day is TicksPerDay ticks.  Strings that the code compares or sorts      *)
(* (the message ids) are sequences of UTF-16 code units.                   *)
(***************************************************************************)
EXTENDS Integers, Sequences, FiniteSets, TLC

(***************************************************************************)
(* Bounds of the model.                                                    *)
(***************************************************************************)
\* largest chunk size tried for saveMessages (CHUNK_SIZE) and deleteChat
\* (BATCH_SIZE) and the parser; the code fixes 1000, 20000 and 2000
MaxChunk == 3
\* longest message sequence of the ordering specification
MaxOrderMsgs == 11
\* instants of the ordering specification are 1..MaxOrderTs
MaxOrderTs == 2
\* ticks of one calendar day
TicksPerDay == 2
\* longest text file of the import specification, in lines
MaxLines == 3
\* most progress events a FileReader fires for one file
MaxReadEvents == 1
\* longest message sequence and longest candidate file list of the matcher
\* specification
MaxMatchMsgs == 2
MaxMatchFiles == 2
\* longest text of the parser specification, in lines
MaxParseLines == 3
\* selections made in the sidebar in one run of the selection specification
MaxSelects == 3
\* non-blank lines in the 10 KB sample validateTextFile reads
MaxSampleLines == 200
\* files in a folder handed to validateFolder
MaxFolderFiles == 3

(***************************************************************************)
(* Strings as code units.                                                  *)
(***************************************************************************)
RECURSIVE Digits(_)
\* String(n) for a natural n: its decimal digits as code units
Digits(n) ==
    IF n < 10 THEN <<48 + n>> ELSE Digits(n \div 10) \o <<48 + (n % 10)>>

\* a < b for two strings, as IndexedDB compares string keys (code unit by
\* code unit, a proper prefix first)
StrLess(a, b) ==
    \E k \in 1..(Len(b)) :
        /\ \A j \in 1..(k - 1) : j <= Len(a) /\ a[j] = b[j]
        /\ k - 1 <= Len(a)
        /\ IF k > Len(a) THEN TRUE ELSE a[k] < b[k]

NoSender == ""
NoFile == [stem |-> "", cap |-> FALSE, ext |-> "", day |-> 0, at |-> 0]
NoType == ""

\* an id made of the instant alone
MakeIdOfInstant(timestamp, ordinal) == [ts |-> timestamp, ord |-> 0]

\* `msg-${timestamp}-${messages.length}`: the id is kept as the pair it is
\* built from, IdString is the string the store sees
MakeId(timestamp, ordinal) == [ts |-> timestamp, ord |-> ordinal]

IdString(id) ==
    <<109, 115, 103, 45>> \o Digits(id.ts) \o <<45>> \o Digits(id.ord)

(***************************************************************************)
(* File names and message content.                                         *)
(*                                                                         *)
(* A file name is its stem, whether it is written in capitals (names that  *)
(* differ in cap only are equal up to letter case), its extension, the     *)
(* calendar day its stem spells in the IMG-YYYYMMDD-WANNNN or the          *)
(* "WhatsApp Image YYYY-MM-DD at HH.MM.SS" convention (0: the stem spells  *)
(* none) and the time of that day the second convention spells, in ticks.  *)
(* A content is the sequence of its lines; a line is its text and, for     *)
(* "<name> (file attached)", the name.                                     *)
(***************************************************************************)
ToLowerCase(name) == [name EXCEPT !.cap = FALSE]

Text(t) == [text |-> t, file |-> NoFile]
Attached(f) == [text |-> "(file attached)", file |-> f]
EmptyLine == Text("")

\* the extensions of MEDIA_PATTERNS[8] and extractMediaFileName that the
\* model uses
ParserMediaExts == {"jpg", "heic", "mp4", "pdf"}
\* the extensions of findReferencedFilename's first pattern that the model
\* uses: "heic" is not among them
MatcherRefExts == {"jpg", "mp4", "pdf"}

isSystemMessage(content) == content.text \in {"You left", "Security code changed"}

isMediaMessage(content) ==
    \/ content.text = "<Media omitted>"
    \/ /\ content.text = "(file attached)"
       /\ (content.file = NoFile \/ content.file.ext \in ParserMediaExts)

extractMediaFileName(content) ==
    IF content.text = "(file attached)" /\ content.file # NoFile
       /\ content.file.ext \in ParserMediaExts
    THEN content.file ELSE NoFile

getMediaTypeFromFilename(filename) ==
    IF filename.ext \in {"jpg", "heic"} THEN "image"
    ELSE IF filename.ext \in {"mp4"} THEN "video"
    ELSE IF filename.ext \in {"opus"} THEN "audio"
    ELSE "document"

\* String.prototype.trim on a content: leading and trailing empty lines go
RECURSIVE Trim(_)
Trim(content) ==
    IF Len(content) > 1 /\ content[Len(content)] = EmptyLine
    THEN Trim(SubSeq(content, 1, Len(content) - 1))
    ELSE IF Len(content) > 1 /\ content[1] = EmptyLine
    THEN Trim(Tail(content))
    ELSE content

(***************************************************************************)
(* parseWhatsAppChat: the line loop.  A line is blank, a header (it        *)
(* matches a timestamp pattern: instant ts, sender or NoSender, content)   *)
(* or a continuation.  The parse state is the output sequence, the open    *)
(* message (a sequence of length 0 or 1) and the sender set.               *)
(***************************************************************************)
BlankLine == [kind |-> "blank", ts |-> 0, sender |-> NoSender, content |-> EmptyLine]
HeaderLine(ts, sender, content) ==
    [kind |-> "header", ts |-> ts, sender |-> sender, content |-> content]
ContLine(content) ==
    [kind |-> "cont", ts |-> 0, sender |-> NoSender, content |-> content]

\* the message with the name of any attached file kept
NewMessageNamed(line, ordinal) ==
    [id |-> MakeId(line.ts, ordinal),
     timestamp |-> line.ts,
     sender |-> line.sender,
     content |-> <<line.content>>,
     type |-> IF line.sender # NoSender
              THEN (IF isMediaMessage(line.content) THEN "media" ELSE "text")
              ELSE (IF isSystemMessage(line.content) THEN "system" ELSE "text"),
     mediaFileName |-> line.content.file,
     mediaType |-> IF line.content.file # NoFile
                   THEN getMediaTypeFromFilename(line.content.file)
                   ELSE NoType,
     mediaUrl |-> FALSE]

NewMessage(line, ordinal) ==
    IF line.sender # NoSender
    THEN LET isMedia == isMediaMessage(line.content)
             mediaFileName == IF isMedia THEN extractMediaFileName(line.content)
                              ELSE NoFile
         IN [id |-> MakeId(line.ts, ordinal),
             timestamp |-> line.ts,
             sender |-> line.sender,
             content |-> <<line.content>>,
             type |-> IF isMedia THEN "media" ELSE "text",
             mediaFileName |-> mediaFileName,
             mediaType |-> IF mediaFileName # NoFile
                           THEN getMediaTypeFromFilename(mediaFileName)
                           ELSE NoType,
             mediaUrl |-> FALSE]
    ELSE [id |-> MakeId(line.ts, ordinal),
          timestamp |-> line.ts,
          sender |-> NoSender,
          content |-> <<line.content>>,
          type |-> IF isSystemMessage(line.content) THEN "system" ELSE "text",
          mediaFileName |-> NoFile,
          mediaType |-> NoType,
          mediaUrl |-> FALSE]

CloseMessage(m) == [m EXCEPT !.content = Trim(m.content)]

ParseInit == [messages |-> <<>>, currentMessage |-> <<>>, senderSet |-> {}]

\* the loop with blank lines skipped whole
ProcessLineSkipBlank(st, line) ==
    IF line.kind = "blank" THEN st
    ELSE IF line.kind = "header"
    THEN LET pushed == IF st.currentMessage # <<>>
                       THEN Append(st.messages, CloseMessage(st.currentMessage[1]))
                       ELSE st.messages
         IN [messages |-> pushed,
             currentMessage |-> <<NewMessage(line, Len(pushed))>>,
             senderSet |-> IF line.sender # NoSender
                           THEN st.senderSet \cup {line.sender}
                           ELSE st.senderSet]
    ELSE IF st.currentMessage # <<>>
         THEN [st EXCEPT !.currentMessage[1].content = Append(@, line.content)]
         ELSE st

\* one iteration of the inner for loop
ProcessLine(st, line) ==
    IF line.kind = "blank"
    THEN IF st.currentMessage # <<>>
         THEN [st EXCEPT !.currentMessage[1].content = Append(@, EmptyLine)]
         ELSE st
    ELSE IF line.kind = "header"
    THEN LET pushed == IF st.currentMessage # <<>>
                       THEN Append(st.messages, CloseMessage(st.currentMessage[1]))
                       ELSE st.messages
         IN [messages |-> pushed,
             currentMessage |-> <<NewMessage(line, Len(pushed))>>,
             senderSet |-> IF line.sender # NoSender
                           THEN st.senderSet \cup {line.sender}
                           ELSE st.senderSet]
    ELSE IF st.currentMessage # <<>>
         THEN [st EXCEPT !.currentMessage[1].content = Append(@, line.content)]
         ELSE st

RECURSIVE ProcessLines(_, _, _, _)
\* lines[from + 1 .. to] processed in order (for i = chunkStart; i < chunkEnd)
ProcessLines(st, lines, from, to) ==
    IF from >= to THEN st
    ELSE ProcessLines(ProcessLine(st, lines[from + 1]), lines, from + 1, to)

\* "Add last message"
ParseFinish(st) ==
    IF st.currentMessage # <<>>
    THEN Append(st.messages, CloseMessage(st.currentMessage[1]))
    ELSE st.messages

Min(a, b) == IF a < b THEN a ELSE b

(***************************************************************************)
(* The IndexedDB stores.  An object store is a function from the keys      *)
(* present to the records; a readwrite transaction applies all its         *)
(* requests or none.                                                       *)
(***************************************************************************)
Put(store, key, value) ==
    [k \in DOMAIN store \cup {key} |-> IF k = key THEN value ELSE store[k]]

Delete(store, key) == [k \in DOMAIN store \ {key} |-> store[k]]

StoredMessage(msg, chatId) ==
    [id |-> msg.id, timestamp |-> msg.timestamp, sender |-> msg.sender,
     content |-> msg.content, type |-> msg.type,
     mediaFileName |-> msg.mediaFileName, mediaType |-> msg.mediaType,
     mediaUrl |-> msg.mediaUrl, chatId |-> chatId]

RECURSIVE PutChunk(_, _, _, _, _)
\* the puts of one transaction of saveMessages: messages[from + 1 .. to]
PutChunk(store, messages, chatId, from, to) ==
    IF from >= to THEN store
    ELSE PutChunk(Put(store, messages[from + 1].id,
                      StoredMessage(messages[from + 1], chatId)),
                  messages, chatId, from + 1, to)

RECURSIVE DeleteKeys(_, _, _, _)
\* the deletes of one transaction of deleteChat on one store
DeleteKeys(store, ids, from, to) ==
    IF from >= to THEN store
    ELSE DeleteKeys(Delete(store, ids[from + 1]), ids, from + 1, to)

RECURSIVE SortKeys(_)
\* the keys of S in ascending key order (a cursor's or getAll's order)
SortKeys(S) ==
    IF S = {} THEN <<>>
    ELSE LET m == CHOOSE x \in S :
                     \A y \in S \ {x} : StrLess(IdString(x), IdString(y))
         IN <<m>> \o SortKeys(S \ {m})

\* the keys of index by-chatId for one chat id, in primary key order
IndexKeys(store, chatId) ==
    SortKeys({k \in DOMAIN store : store[k].chatId = chatId})

\* getMessagesForChat: db.getAllFromIndex('messages', 'by-chatId', chatId)
getMessagesForChat(store, chatId) ==
    LET keys == IndexKeys(store, chatId)
    IN [i \in 1..Len(keys) |-> store[keys[i]]]

RECURSIVE InsertByTimestamp(_, _)
\* m placed after every element of the sorted sequence s whose timestamp is
\* not greater (Array.prototype.sort is stable)
InsertByTimestamp(s, m) ==
    IF s = <<>> THEN <<m>>
    ELSE IF s[Len(s)].timestamp <= m.timestamp THEN Append(s, m)
    ELSE Append(InsertByTimestamp(SubSeq(s, 1, Len(s) - 1), m), s[Len(s)])

RECURSIVE SortByTimestamp(_)
\* msgs.sort((a, b) => a.timestamp - b.timestamp)
SortByTimestamp(msgs) ==
    IF msgs = <<>> THEN <<>>
    ELSE InsertByTimestamp(SortByTimestamp(SubSeq(msgs, 1, Len(msgs) - 1)),
                           msgs[Len(msgs)])

\* useMessages.loadMessages: what setMessages receives
loadMessages(store, chatId) == SortByTimestamp(getMessagesForChat(store, chatId))

(***************************************************************************)
(* mediaMatcher.  A candidate file is its index in mediaFiles (two File    *)
(* objects of the same name are two files); mediaFiles is the sequence of  *)
(* their names.  The lookup Map is the sequence of its values in insertion *)
(* order, each with its key.                                               *)
(***************************************************************************)
DayOf(timestamp) == timestamp \div TicksPerDay

\* local midnight of the day the name spells, plus the time it spells;
\* null (0) when it spells no day
extractTimestampFromFilename(filename) ==
    IF filename.day > 0 THEN filename.day * TicksPerDay + filename.at ELSE 0

getMediaType(filename) ==
    IF filename.ext \in {"jpg", "heic"} THEN "image"
    ELSE IF filename.ext \in {"mp4"} THEN "video"
    ELSE IF filename.ext \in {"opus"} THEN "audio"
    ELSE "document"

MediaFile(mediaFiles, i) ==
    [key |-> ToLowerCase(mediaFiles[i]),
     file |-> i,
     name |-> mediaFiles[i],
     type |-> getMediaType(mediaFiles[i]),
     timestamp |-> extractTimestampFromFilename(mediaFiles[i]),
     matched |-> FALSE,
     messageId |-> <<>>]

\* the position of the value of key in the lookup, 0 when absent (Map.get)
MapGet(lookup, key) ==
    IF \E j \in 1..Len(lookup) : lookup[j].key = key
    THEN CHOOSE j \in 1..Len(lookup) : lookup[j].key = key
    ELSE 0

\* Map.prototype.set: a key already present keeps its place and takes the
\* new value
MapSet(lookup, entry) ==
    IF MapGet(lookup, entry.key) # 0
    THEN [lookup EXCEPT ![MapGet(lookup, entry.key)] = entry]
    ELSE Append(lookup, entry)

RECURSIVE buildMediaLookupTo(_, _)
buildMediaLookupTo(mediaFiles, n) ==
    IF n = 0 THEN <<>>
    ELSE MapSet(buildMediaLookupTo(mediaFiles, n - 1), MediaFile(mediaFiles, n))

buildMediaLookup(mediaFiles) == buildMediaLookupTo(mediaFiles, Len(mediaFiles))

\* the part of a stem after its last white space, which is what [^\s<>]+
\* captures of it
LastWord(stem) == IF stem = "WhatsApp Image" THEN "10.30.15" ELSE stem

\* the first line of the content that reads "<name>.<ext> (file attached)"
\* with ext among the first pattern's: the name from its last white space
\* on, or NoFile for null
findReferencedFilename(content) ==
    LET hits == {j \in 1..Len(content) :
                    /\ content[j].text = "(file attached)"
                    /\ content[j].file # NoFile
                    /\ content[j].file.ext \in MatcherRefExts}
        first == content[CHOOSE j \in hits : \A k \in hits : j <= k].file
    IN IF hits = {} THEN NoFile
       ELSE [first EXCEPT !.stem = LastWord(@)]

\* the message rebuilt around the file instead of copied
EnrichRebuilt(msg, mediaFile) ==
    [msg EXCEPT !.mediaFileName = mediaFile.name, !.mediaType = mediaFile.type,
                !.content = <<Attached(mediaFile.name)>>]

Enrich(msg, mediaFile) ==
    [msg EXCEPT !.mediaFileName = mediaFile.name, !.mediaType = mediaFile.type]

\* one iteration of the strategy 1 loop, on message i; st is the matcher's
\* working state: matchedMessages, lookup, and the history of the claims
Strategy1Step(st, i) ==
    LET msg == st.matchedMessages[i]
        referencedFile == findReferencedFilename(msg.content)
        at == MapGet(st.lookup, ToLowerCase(referencedFile))
    IN IF msg.type # "media" THEN st
       ELSE IF referencedFile = NoFile THEN st
       ELSE IF at # 0 /\ ~st.lookup[at].matched
       THEN [st EXCEPT !.matchedMessages[i] = Enrich(msg, st.lookup[at]),
                       !.lookup[at].matched = TRUE,
                       !.lookup[at].messageId = <<msg.id>>,
                       !.claims = Append(@, [strategy |-> 1, message |-> i,
                                             file |-> st.lookup[at].file])]
       ELSE st

RECURSIVE Strategy1(_, _)
\* the strategy 1 loop over messages 1..n
Strategy1(st, n) ==
    IF n = 0 THEN st ELSE Strategy1Step(Strategy1(st, n - 1), n)

RECURSIVE InsertByFileTimestamp(_, _, _)
InsertByFileTimestamp(s, lookup, p) ==
    IF s = <<>> THEN <<p>>
    ELSE IF lookup[s[Len(s)]].timestamp <= lookup[p].timestamp THEN Append(s, p)
    ELSE Append(InsertByFileTimestamp(SubSeq(s, 1, Len(s) - 1), lookup, p),
                s[Len(s)])

\* the pool left in the order of the lookup
Unsorted(s, lookup) == s

RECURSIVE SortByFileTimestamp(_, _)
\* unmatchedWithTimestamp.sort((a, b) => (a.timestamp || 0) - (b.timestamp || 0))
SortByFileTimestamp(s, lookup) ==
    IF s = <<>> THEN <<>>
    ELSE InsertByFileTimestamp(
             SortByFileTimestamp(SubSeq(s, 1, Len(s) - 1), lookup),
             lookup, s[Len(s)])

RECURSIVE UnmatchedPositions(_, _)
\* Array.from(mediaLookup.values()).filter(m => !m.matched)
\*      .filter(m => m.timestamp), as positions 1..n of the lookup
UnmatchedPositions(lookup, n) ==
    IF n = 0 THEN <<>>
    ELSE IF ~lookup[n].matched /\ lookup[n].timestamp # 0
    THEN Append(UnmatchedPositions(lookup, n - 1), n)
    ELSE UnmatchedPositions(lookup, n - 1)

\* unmatchedWithTimestamp: the positions in the lookup of the values strategy
\* 2 works on (the MediaFile objects are shared with the lookup)
UnmatchedWithTimestamp(lookup) ==
    SortByFileTimestamp(UnmatchedPositions(lookup, Len(lookup)), lookup)

\* unmatchedMediaMsgs: the indices of the media messages without a file name
UnmatchedMediaMsgs(matchedMessages) ==
    {i \in 1..Len(matchedMessages) :
        /\ matchedMessages[i].type = "media"
        /\ matchedMessages[i].mediaFileName = NoFile}

\* a faulty variant of Strategy2Step: the file is not marked as matched
Strategy2StepUnmarked(st, pool, idx) ==
    LET msg == st.matchedMessages[idx]
        msgDay == DayOf(msg.timestamp)
        candidates == {k \in 1..Len(pool) :
                          /\ ~st.lookup[pool[k]].matched
                          /\ st.lookup[pool[k]].timestamp # 0
                          /\ DayOf(st.lookup[pool[k]].timestamp) = msgDay}
    IN IF candidates # {}
       THEN LET at == pool[CHOOSE k \in candidates : \A j \in candidates : k <= j]
            IN [st EXCEPT !.matchedMessages[idx] = Enrich(msg, st.lookup[at]),
                          !.claims = Append(@, [strategy |-> 2, message |-> idx,
                                                file |-> st.lookup[at].file])]
       ELSE st

\* one iteration of the strategy 2 loop, on message idx; msg is the message
\* as it was when unmatchedMediaMsgs was built
Strategy2Step(st, pool, idx) ==
    LET msg == st.matchedMessages[idx]
        msgDay == DayOf(msg.timestamp)
        candidates == {k \in 1..Len(pool) :
                          /\ ~st.lookup[pool[k]].matched
                          /\ st.lookup[pool[k]].timestamp # 0
                          /\ DayOf(st.lookup[pool[k]].timestamp) = msgDay}
    IN IF candidates # {}
       THEN LET at == pool[CHOOSE k \in candidates : \A j \in candidates : k <= j]
            IN [st EXCEPT !.matchedMessages[idx] = Enrich(msg, st.lookup[at]),
                          !.lookup[at].matched = TRUE,
                          !.lookup[at].messageId = <<msg.id>>,
                          !.claims = Append(@, [strategy |-> 2, message |-> idx,
                                                file |-> st.lookup[at].file])]
       ELSE st

RECURSIVE Strategy2(_, _, _, _)
\* the strategy 2 loop over the messages of todo with index <= n, ascending
Strategy2(st, pool, todo, n) ==
    IF n = 0 THEN st
    ELSE LET before == Strategy2(st, pool, todo, n - 1)
         IN IF n \in todo THEN Strategy2Step(before, pool, n) ELSE before

RECURSIVE FilesWhereTo(_, _, _)
\* the first n values of the lookup that pass the filter, as files
FilesWhereTo(lookup, matched, n) ==
    IF n = 0 THEN <<>>
    ELSE IF lookup[n].matched = matched
    THEN Append(FilesWhereTo(lookup, matched, n - 1), lookup[n].file)
    ELSE FilesWhereTo(lookup, matched, n - 1)

\* Array.from(mediaLookup.values()).filter(...): the lookup's values that
\* pass the filter, as files, in lookup order
FilesWhere(lookup, matched) == FilesWhereTo(lookup, matched, Len(lookup))

MatchStart(messages, mediaFiles) ==
    [matchedMessages |-> messages,
     lookup |-> buildMediaLookup(mediaFiles),
     claims |-> <<>>]

MatchResult(st, mediaFiles) ==
    [matchedMessages |-> st.matchedMessages,
     unmatchedMedia |-> FilesWhere(st.lookup, FALSE),
     matchCount |-> Len(FilesWhere(st.lookup, TRUE)),
     totalMedia |-> Len(mediaFiles),
     claims |-> st.claims]

matchMediaToMessages(messages, mediaFiles) ==
    IF Len(mediaFiles) = 0
    THEN [matchedMessages |-> messages, unmatchedMedia |-> <<>>,
          matchCount |-> 0, totalMedia |-> 0, claims |-> <<>>]
    ELSE LET s1 == Strategy1(MatchStart(messages, mediaFiles), Len(messages))
             s2 == Strategy2(s1, UnmatchedWithTimestamp(s1.lookup),
                             UnmatchedMediaMsgs(s1.matchedMessages),
                             Len(messages))
         IN MatchResult(s2, mediaFiles)

(***************************************************************************)
(* The state.                                                              *)
(***************************************************************************)
VARIABLES
    chatsDB,      \* object store 'chats': chat id -> Chat
    messagesDB,   \* object store 'messages': message id -> StoredMessage
    mediaDB,      \* object store 'media': message id -> media record
    save,         \* the activation of storage.saveMessages
    del,          \* the activation of storage.deleteChat
    parse,        \* the activation of parseWhatsAppChat
    imp,          \* the activation of useImport.importChatWithMedia
    progress,     \* useImport: the progress state, <<>> for null
    importing,    \* useImport: the importing state
    error,        \* useImport: the error state, "" for null
    loaded,       \* useMessages: the messages state and the chat id loaded
    match,        \* the activation of matchMediaToMessages
    chats,        \* useChats: the chats state, by chat id
    selectedChatId, \* App: the selectedChatId state, "" for null
    loading,      \* useMessages: the chat id whose load is pending, "" for none
    touch,        \* the activation of useChats.updateChatLastOpened
    pov,          \* the activation of App.handleViewAsChange
    tryLine,      \* the activation of tryParseMessageLine
    pick,         \* the activation of ImportModal.handleFileSelect
    loads         \* useMessages: the loads started and not yet settled

vars == <<chatsDB, messagesDB, mediaDB, save, del, parse, imp, progress,
          importing, error, loaded, match, chats, selectedChatId, loading,
          touch, pov, tryLine, pick, loads>>

dbVars == <<chatsDB, messagesDB, mediaDB>>
uiVars == <<progress, importing, error>>
appVars == <<chats, selectedChatId, loading, touch, pov>>
entryVars == <<tryLine, pick, loads>>

ChunkSizes == 1..MaxChunk

Idle == [pc |-> "idle"]

NoLoad == [chatId |-> "", messages |-> <<>>]

\* no load pending, no selection made
NoLoads == [pending |-> <<>>, started |-> 0]

(***************************************************************************)
(* storage.saveMessages.  pc: "tx" (the puts of a chunk are queued, await  *)
(* tx.done), "yield" (await yieldToUI()), "done" (resolved), "failed"      *)
(* (rejected with error).  before is the messages store when the call      *)
(* started; reports are the onProgress calls; attempts, batches and yields *)
(* count the transactions opened, committed, and the timers awaited.       *)
(***************************************************************************)
\* a faulty variant of ChunkEnd: the first batch takes every record
ChunkEndWhole(chunkStart, size, length) == length

ChunkEnd(chunkStart, size, length) == Min(chunkStart + size, length)

\* the call up to its first await of tx.done
SaveCall(messages, chatId, size, store) ==
    [pc |-> IF 0 < Len(messages) THEN "tx" ELSE "done",
     messages |-> messages, chatId |-> chatId, CHUNK_SIZE |-> size,
     chunkStart |-> 0, before |-> store, reports |-> <<>>,
     attempts |-> IF 0 < Len(messages) THEN 1 ELSE 0,
     batches |-> 0, yields |-> 0, error |-> ""]

\* a faulty variant of SaveCommitted: the report counts the records of the
\* batch, not the records so far
SaveCommittedChunkOnly(sv) ==
    [sv EXCEPT !.pc = "yield",
               !.batches = @ + 1,
               !.reports = Append(@, <<Min(sv.chunkStart + sv.CHUNK_SIZE,
                                           Len(sv.messages)) - sv.chunkStart,
                                       Len(sv.messages)>>)]

\* what save becomes when tx.done resolves: onProgress(chunkEnd, total), then
\* the timer is awaited
SaveCommitted(sv) ==
    [sv EXCEPT !.pc = "yield",
               !.batches = @ + 1,
               !.reports = Append(@, <<ChunkEnd(sv.chunkStart, sv.CHUNK_SIZE,
                                                Len(sv.messages)),
                                       Len(sv.messages)>>)]

\* a faulty variant of SaveBatchFail: the first put of the batch stays
SaveBatchFailTorn(e) ==
    /\ save.pc = "tx"
    /\ save' = [save EXCEPT !.pc = "failed", !.error = e]
    /\ messagesDB' = PutChunk(messagesDB, save.messages, save.chatId,
                              save.chunkStart, save.chunkStart + 1)
    /\ UNCHANGED <<chatsDB, mediaDB, del, parse, imp, uiVars, loaded, match, appVars, entryVars>>

\* tx.done rejects with e: the transaction is aborted, none of the chunk is
\* stored; the await throws and saveMessages rejects
SaveBatchFail(e) ==
    /\ save.pc = "tx"
    /\ save' = [save EXCEPT !.pc = "failed", !.error = e]
    /\ UNCHANGED <<dbVars, del, parse, imp, uiVars, loaded, match, appVars, entryVars>>

\* a faulty variant of SaveResumed: the loop ends after the first batch
SaveResumedOnce(sv) ==
    [sv EXCEPT !.chunkStart = sv.chunkStart + sv.CHUNK_SIZE, !.yields = @ + 1,
               !.pc = "done"]

\* what save becomes when the timer fires: chunkStart += CHUNK_SIZE and the
\* loop test
SaveResumed(sv) ==
    LET next == sv.chunkStart + sv.CHUNK_SIZE
    IN IF next < Len(sv.messages)
       THEN [sv EXCEPT !.chunkStart = next, !.yields = @ + 1, !.pc = "tx",
                       !.attempts = @ + 1]
       ELSE [sv EXCEPT !.chunkStart = next, !.yields = @ + 1, !.pc = "done"]

SaveYield ==
    /\ save.pc = "yield"
    /\ save' = SaveResumed(save)
    /\ UNCHANGED <<dbVars, del, parse, imp, uiVars, loaded, match, appVars, entryVars>>

(***************************************************************************)
(* useMessages: the effect for chat id c, getMessagesForChat resolved.     *)
(***************************************************************************)
LoadMessages(c) ==
    /\ loaded' = [chatId |-> c, messages |-> loadMessages(messagesDB, c)]
    /\ UNCHANGED <<dbVars, save, del, parse, imp, uiVars, match, appVars, entryVars>>



(***************************************************************************)
(* storage.deleteChat.  pc: "enumerate" (the chat record is deleted, the   *)
(* cursor over index by-chatId runs), "tx" (the deletes of a batch are     *)
(* queued, await tx.done), "yield", "done", "failed".  belonged is the set *)
(* of message ids of the chat when the call started; returned tells that   *)
(* the caller, App.confirmDeleteChat, has resumed.                         *)
(***************************************************************************)
BatchEnd(batchStart, size, length) == Min(batchStart + size, length)

DeleteCall(c, size) ==
    /\ del.pc = "idle"
    /\ chatsDB' = Delete(chatsDB, c)
    /\ del' = [pc |-> "enumerate", chatId |-> c, BATCH_SIZE |-> size,
               messageIds |-> <<>>, batchStart |-> 0, reports |-> <<>>,
               belonged |-> {k \in DOMAIN messagesDB : messagesDB[k].chatId = c},
               chatGone |-> TRUE, enumerated |-> FALSE, removed |-> 0,
               attempts |-> 0, batches |-> 0, error |-> "", returned |-> FALSE]
    /\ UNCHANGED <<messagesDB, mediaDB, save, parse, imp, uiVars, loaded, match, appVars,
                   entryVars>>

\* the cursor loop, total, the early return, onProgress(0, total) and the
\* first batch up to its await
\* the enumeration reporting the size of the first batch as the total
DeleteEnumeratedBatchTotal(d, store) ==
    LET messageIds == IndexKeys(store, d.chatId)
    IN IF Len(messageIds) = 0
       THEN [d EXCEPT !.pc = "done", !.enumerated = TRUE]
       ELSE [d EXCEPT !.pc = "tx", !.messageIds = messageIds,
                      !.enumerated = TRUE, !.attempts = 1,
                      !.reports = <<<<0, BatchEnd(0, d.BATCH_SIZE,
                                                  Len(messageIds))>>>>]

DeleteEnumerated(d, store) ==
    LET messageIds == IndexKeys(store, d.chatId)
    IN IF Len(messageIds) = 0
       THEN [d EXCEPT !.pc = "done", !.enumerated = TRUE]
       ELSE [d EXCEPT !.pc = "tx", !.messageIds = messageIds,
                      !.enumerated = TRUE, !.attempts = 1,
                      !.reports = <<<<0, Len(messageIds)>>>>]

DeleteEnumerate ==
    /\ del.pc = "enumerate"
    /\ del' = DeleteEnumerated(del, messagesDB)
    /\ UNCHANGED <<dbVars, save, parse, imp, uiVars, loaded, match, appVars, entryVars>>

DeleteCommitted(d) ==
    [d EXCEPT !.pc = "yield",
              !.batches = @ + 1,
              !.removed = @ + Cardinality(
                  {d.messageIds[i] : i \in (d.batchStart + 1) ..
                      BatchEnd(d.batchStart, d.BATCH_SIZE, Len(d.messageIds))}
                  \cap DOMAIN messagesDB),
              !.reports = Append(@, <<BatchEnd(d.batchStart, d.BATCH_SIZE,
                                               Len(d.messageIds)),
                                      Len(d.messageIds)>>)]

DeleteBatchCommit ==
    /\ del.pc = "tx"
    /\ messagesDB' = DeleteKeys(messagesDB, del.messageIds, del.batchStart,
                                BatchEnd(del.batchStart, del.BATCH_SIZE,
                                         Len(del.messageIds)))
    /\ mediaDB' = DeleteKeys(mediaDB, del.messageIds, del.batchStart,
                             BatchEnd(del.batchStart, del.BATCH_SIZE,
                                      Len(del.messageIds)))
    /\ del' = DeleteCommitted(del)
    /\ UNCHANGED <<chatsDB, save, parse, imp, uiVars, loaded, match, appVars, entryVars>>

\* tx.done rejects: the transaction is aborted, deleteChat rejects
DeleteBatchFail(e) ==
    /\ del.pc = "tx"
    /\ del' = [del EXCEPT !.pc = "failed", !.error = e]
    /\ UNCHANGED <<dbVars, save, parse, imp, uiVars, loaded, match, appVars, entryVars>>

DeleteResumed(d) ==
    LET next == d.batchStart + d.BATCH_SIZE
    IN IF next < Len(d.messageIds)
       THEN [d EXCEPT !.batchStart = next, !.pc = "tx", !.attempts = @ + 1]
       ELSE [d EXCEPT !.batchStart = next, !.pc = "done"]

DeleteYield ==
    /\ del.pc = "yield"
    /\ del' = DeleteResumed(del)
    /\ UNCHANGED <<dbVars, save, parse, imp, uiVars, loaded, match, appVars, entryVars>>

\* useChats.deleteChat resumes: loadChats after a resolved storage.deleteChat,
\* console.error after a rejected one; then App.confirmDeleteChat resumes:
\* setSelectedChatId(null) if the deleted chat is selected
DeleteReturned ==
    /\ del.pc \in {"done", "failed"}
    /\ ~del.returned
    /\ del' = [del EXCEPT !.returned = TRUE]
    /\ chats' = IF del.pc = "done" THEN chatsDB ELSE chats
    /\ selectedChatId' = IF selectedChatId = del.chatId THEN "" ELSE selectedChatId
    /\ UNCHANGED <<dbVars, save, parse, imp, uiVars, loaded, match, loading, touch, pov, entryVars>>


(***************************************************************************)
(* useImport's progress values.                                            *)
(***************************************************************************)
\* Math.round((processed / total) * 100), total > 0
Percentage(processed, total) == (200 * processed + total) \div (2 * total)

Progress(status, processed, total, percentage) ==
    [total |-> total, processed |-> processed, percentage |-> percentage,
     status |-> status, error |-> ""]

ErrorProgress(errorMessage) ==
    [total |-> 100, processed |-> 0, percentage |-> 0, status |-> "error",
     error |-> errorMessage]

\* setProgress called with each value of ps in turn, without an await in
\* between: the state is the last of them
SetProgress(ps) == progress' = <<ps[Len(ps)]>>

(***************************************************************************)
(* parseWhatsAppChat(file, onProgress).  pc: "reading" (readAsText runs),  *)
(* "yield" (a chunk is processed, await yieldToUI()), "done" (resolved     *)
(* with messages and isGroup), "failed" (rejected).  The file is its lines *)
(* (text.split('\n'), at least one) and its size; reports are the          *)
(* onProgress calls of the line-processing stage.                          *)
(***************************************************************************)
FileSize(lines) == Len(lines)

ParseCall(lines, size) ==
    [pc |-> "reading", lines |-> lines, CHUNK_SIZE |-> size, chunkStart |-> 0,
     st |-> ParseInit, reports |-> <<>>, readEvents |-> 0,
     messages |-> <<>>, isGroup |-> FALSE, error |-> ""]

\* reader.onprogress with e.lengthComputable and e.loaded = e.total
ReaderProgress ==
    /\ parse.pc = "reading"
    /\ parse.readEvents < MaxReadEvents
    /\ parse' = [parse EXCEPT !.readEvents = @ + 1]
    /\ SetProgress(<<Progress("reading", FileSize(parse.lines), FileSize(parse.lines),
                              Percentage(FileSize(parse.lines), FileSize(parse.lines)))>>)
    /\ UNCHANGED <<dbVars, save, del, imp, importing, error, loaded, match, appVars, entryVars>>

\* reader.onerror: reject(new Error('Failed to read file'))
ReaderError ==
    /\ parse.pc = "reading"
    /\ parse' = [parse EXCEPT !.pc = "failed", !.error = "Failed to read file"]
    /\ UNCHANGED <<dbVars, save, del, imp, uiVars, loaded, match, appVars, entryVars>>

ParsingProgress(processed, totalLines) ==
    Progress("parsing", processed, totalLines, Percentage(processed, totalLines))

\* reader.onload up to the first await: the stage 2 reset, the first chunk
\* and its report
ReaderLoad ==
    /\ parse.pc = "reading"
    /\ LET totalLines == Len(parse.lines)
           chunkEnd == Min(parse.CHUNK_SIZE, totalLines)
       IN /\ parse' = [parse EXCEPT
                 !.pc = "yield",
                 !.st = ProcessLines(parse.st, parse.lines, 0, chunkEnd),
                 !.reports = <<<<0, totalLines>>, <<chunkEnd, totalLines>>>>]
          /\ SetProgress(<<Progress("parsing", 0, totalLines, 0),
                           ParsingProgress(chunkEnd, totalLines)>>)
    /\ UNCHANGED <<dbVars, save, del, imp, importing, error, loaded, match, appVars, entryVars>>

\* the loop with the open message dropped at every chunk boundary
ParseYieldReset ==
    /\ parse.pc = "yield"
    /\ LET totalLines == Len(parse.lines)
           next == parse.chunkStart + parse.CHUNK_SIZE
           chunkEnd == Min(next + parse.CHUNK_SIZE, totalLines)
           fresh == [parse.st EXCEPT !.currentMessage = <<>>]
       IN IF next < totalLines
          THEN /\ parse' = [parse EXCEPT
                      !.chunkStart = next,
                      !.st = ProcessLines(fresh, parse.lines, next, chunkEnd),
                      !.reports = Append(@, <<chunkEnd, totalLines>>)]
               /\ SetProgress(<<ParsingProgress(chunkEnd, totalLines)>>)
          ELSE /\ parse' = [parse EXCEPT
                      !.chunkStart = next,
                      !.pc = "done",
                      !.messages = ParseFinish(parse.st),
                      !.isGroup = Cardinality(parse.st.senderSet) > 2,
                      !.reports = Append(@, <<totalLines, totalLines>>)]
               /\ SetProgress(<<Progress("complete", totalLines, totalLines, 100)>>)
    /\ UNCHANGED <<dbVars, save, del, imp, importing, error, loaded, match, appVars,
                   entryVars>>

\* the timer fires: the next chunk and its report, or the end of the loop,
\* the last message, isGroup, the final report and resolve
ParseYield ==
    /\ parse.pc = "yield"
    /\ LET totalLines == Len(parse.lines)
           next == parse.chunkStart + parse.CHUNK_SIZE
           chunkEnd == Min(next + parse.CHUNK_SIZE, totalLines)
       IN IF next < totalLines
          THEN /\ parse' = [parse EXCEPT
                      !.chunkStart = next,
                      !.st = ProcessLines(parse.st, parse.lines, next, chunkEnd),
                      !.reports = Append(@, <<chunkEnd, totalLines>>)]
               /\ SetProgress(<<ParsingProgress(chunkEnd, totalLines)>>)
          ELSE /\ parse' = [parse EXCEPT
                      !.chunkStart = next,
                      !.pc = "done",
                      !.messages = ParseFinish(parse.st),
                      !.isGroup = Cardinality(parse.st.senderSet) > 2,
                      !.reports = Append(@, <<totalLines, totalLines>>)]
               /\ SetProgress(<<Progress("complete", totalLines, totalLines, 100)>>)
    /\ UNCHANGED <<dbVars, save, del, imp, importing, error, loaded, match, appVars, entryVars>>

(***************************************************************************)
(* useImport.importChatWithMedia.  pc: "parsing" (await parseWhatsAppChat) *)
(* "saveChat" (await storage.saveChat), "saveMessages" (await              *)
(* storage.saveMessages), "saveMedia" (await storage.saveMedia for the     *)
(* message at index mediaAt), "complete" (returned the chat), "error"      *)
(* (returned null).                                                        *)
(***************************************************************************)
\* fileMap.get(name.toLowerCase()): the last file of that key, 0 for none
FileMapGet(mediaFiles, name) ==
    LET hits == {i \in 1..Len(mediaFiles) :
                    ToLowerCase(mediaFiles[i]) = ToLowerCase(name)}
    IN IF hits = {} THEN 0 ELSE CHOOSE i \in hits : \A j \in hits : j <= i

\* finalMessages after createMediaUrls: a message whose mediaFileName names a
\* file of the file map gets a mediaUrl
WithMediaUrls(messages, mediaFiles) ==
    [i \in 1..Len(messages) |->
        IF messages[i].mediaFileName # NoFile
           /\ FileMapGet(mediaFiles, messages[i].mediaFileName) # 0
        THEN [messages[i] EXCEPT !.mediaUrl = TRUE]
        ELSE messages[i]]

FinalMessages(messages, mediaFiles) ==
    IF Len(mediaFiles) > 0
    THEN WithMediaUrls(matchMediaToMessages(messages, mediaFiles).matchedMessages,
                       mediaFiles)
    ELSE messages

RECURSIVE LastMessageTimestamp(_, _)
\* finalMessages.reduce((max, m) => m.timestamp > max ? m.timestamp : max, ...)
LastMessageTimestamp(messages, n) ==
    IF n = 1 THEN messages[1].timestamp
    ELSE LET max == LastMessageTimestamp(messages, n - 1)
         IN IF messages[n].timestamp > max THEN messages[n].timestamp ELSE max

\* the chat object; Date.now() is instant now
NewChat(chatId, name, finalMessages, isGroup, now) ==
    [id |-> chatId, name |-> name, messageCount |-> Len(finalMessages),
     lastOpened |-> now, created |-> now, isGroup |-> isGroup,
     currentViewAs |-> "",
     lastMessageTimestamp |-> IF Len(finalMessages) > 0
                              THEN LastMessageTimestamp(finalMessages,
                                                        Len(finalMessages))
                              ELSE now]

\* the catch block taking the branch for a value that is not an Error
ImportCatchGeneric(errorMessage) ==
    /\ error' = "Failed to import chat"
    /\ SetProgress(<<ErrorProgress("Failed to import chat")>>)
    /\ importing' = FALSE

\* the catch block of importChatWithMedia for an Error with this message
ImportCatch(errorMessage) ==
    /\ error' = errorMessage
    /\ SetProgress(<<ErrorProgress(errorMessage)>>)
    /\ importing' = FALSE

\* the end of the try block
ImportComplete ==
    /\ SetProgress(<<Progress("complete", 100, 100, 100)>>)
    /\ importing' = FALSE
    /\ UNCHANGED error

ImportStart(lines, mediaFiles, size) ==
    /\ imp.pc = "idle"
    /\ imp' = [pc |-> "parsing", txtFile |-> lines, mediaFiles |-> mediaFiles,
               finalMessages |-> <<>>, chat |-> <<>>, mediaAt |-> 0,
               returned |-> "pending"]
    /\ importing' = TRUE
    /\ error' = ""
    /\ SetProgress(<<Progress("parsing", 0, 100, 0)>>)
    /\ parse' = ParseCall(lines, size)
    /\ UNCHANGED <<dbVars, save, del, loaded, match, appVars, entryVars>>

\* parseWhatsAppChat resolved: media matching, the chat object, the storing
\* reset, and storage.saveChat awaited
ImportParsed ==
    /\ imp.pc = "parsing"
    /\ parse.pc = "done"
    /\ LET finalMessages == FinalMessages(parse.messages, imp.mediaFiles)
           chat == NewChat("c1", "chat", finalMessages, parse.isGroup, 0)
       IN /\ imp' = [imp EXCEPT !.pc = "saveChat",
                                !.finalMessages = finalMessages,
                                !.chat = <<chat>>]
          /\ SetProgress(
                (IF Len(imp.mediaFiles) > 0
                 THEN <<Progress("storing", 100, 100, 100)>> ELSE <<>>)
                \o <<Progress("storing", 0, Len(finalMessages), 0)>>)
    /\ parse' = Idle
    /\ UNCHANGED <<dbVars, save, del, importing, error, loaded, match, appVars, entryVars>>

\* parseWhatsAppChat rejected
ImportParseFailed ==
    /\ imp.pc = "parsing"
    /\ parse.pc = "failed"
    /\ imp' = [imp EXCEPT !.pc = "error", !.returned = "null"]
    /\ ImportCatch(parse.error)
    /\ parse' = Idle
    /\ UNCHANGED <<dbVars, save, del, loaded, match, appVars, entryVars>>

\* storage.saveChat resolved; storage.saveMessages is called
ImportChatSaved(size) ==
    /\ imp.pc = "saveChat"
    /\ chatsDB' = Put(chatsDB, imp.chat[1].id, imp.chat[1])
    /\ save' = SaveCall(imp.finalMessages, imp.chat[1].id, size, messagesDB)
    /\ imp' = [imp EXCEPT !.pc = "saveMessages"]
    /\ UNCHANGED <<messagesDB, mediaDB, del, parse, uiVars, loaded, match, appVars, entryVars>>

\* the onProgress callback importChatWithMedia hands to saveMessages
StoringProgress(report) ==
    Progress("storing", report[1], report[2], Percentage(report[1], report[2]))

\* the first index after from of a message whose media blob is to be saved,
\* Len + 1 when there is none
NextMediaAt(finalMessages, mediaFiles, from) ==
    LET todo == {i \in (from + 1)..Len(finalMessages) :
                    /\ finalMessages[i].mediaFileName # NoFile
                    /\ FileMapGet(mediaFiles, finalMessages[i].mediaFileName) # 0}
    IN IF todo = {} THEN Len(finalMessages) + 1
       ELSE CHOOSE i \in todo : \A j \in todo : i <= j

\* what follows saveMessages and each saveMedia: the next saveMedia awaited,
\* or the end of the try block
ImportContinue(from) ==
    LET at == IF Len(imp.mediaFiles) > 0
              THEN NextMediaAt(imp.finalMessages, imp.mediaFiles, from)
              ELSE Len(imp.finalMessages) + 1
    IN IF at <= Len(imp.finalMessages)
       THEN /\ imp' = [imp EXCEPT !.pc = "saveMedia", !.mediaAt = at]
            /\ UNCHANGED uiVars
       ELSE /\ imp' = [imp EXCEPT !.pc = "complete", !.returned = "chat"]
            /\ ImportComplete

\* saveMessages resolved
ImportMessagesSaved ==
    /\ imp.pc = "saveMessages"
    /\ save.pc = "done"
    /\ ImportContinue(0)
    /\ UNCHANGED <<dbVars, save, del, parse, loaded, match, appVars, entryVars>>

\* saveMessages rejected
ImportSaveFailed ==
    /\ imp.pc = "saveMessages"
    /\ save.pc = "failed"
    /\ imp' = [imp EXCEPT !.pc = "error", !.returned = "null"]
    /\ ImportCatch(save.error)
    /\ UNCHANGED <<dbVars, save, del, parse, loaded, match, appVars, entryVars>>

\* storage.saveMedia(msg.id, file, file.name, file.type) resolved
ImportMediaSaved ==
    /\ imp.pc = "saveMedia"
    /\ LET msg == imp.finalMessages[imp.mediaAt]
           file == FileMapGet(imp.mediaFiles, msg.mediaFileName)
       IN mediaDB' = Put(mediaDB, msg.id,
                         [messageId |-> msg.id, blob |-> file,
                          fileName |-> imp.mediaFiles[file]])
    /\ ImportContinue(imp.mediaAt)
    /\ UNCHANGED <<chatsDB, messagesDB, save, del, parse, loaded, match, appVars, entryVars>>

\* tx.done resolves: the chunk is in the store; importChatWithMedia's
\* onProgress hands the report to setProgress
SaveBatchCommit ==
    /\ save.pc = "tx"
    /\ messagesDB' = PutChunk(messagesDB, save.messages, save.chatId,
                              save.chunkStart,
                              ChunkEnd(save.chunkStart, save.CHUNK_SIZE,
                                       Len(save.messages)))
    /\ save' = SaveCommitted(save)
    /\ IF imp.pc = "saveMessages"
       THEN SetProgress(<<StoringProgress(SaveCommitted(save).reports[
                                              Len(SaveCommitted(save).reports)])>>)
       ELSE UNCHANGED progress
    /\ UNCHANGED <<chatsDB, mediaDB, del, parse, imp, importing, error, loaded, match, appVars,
                   entryVars>>

\* storage.saveChat rejected with e
ImportChatSaveFailed(e) ==
    /\ imp.pc = "saveChat"
    /\ imp' = [imp EXCEPT !.pc = "error", !.returned = "null"]
    /\ ImportCatch(e)
    /\ UNCHANGED <<dbVars, save, del, parse, loaded, match, appVars, entryVars>>

\* storage.saveMedia rejected with e
ImportMediaSaveFailed(e) ==
    /\ imp.pc = "saveMedia"
    /\ imp' = [imp EXCEPT !.pc = "error", !.returned = "null"]
    /\ ImportCatch(e)
    /\ UNCHANGED <<dbVars, save, del, parse, loaded, match, appVars, entryVars>>

(***************************************************************************)
(* The import specification: the store is empty or holds chat c0, imported *)
(* earlier with its media; one import of a text file of MaxLines lines at  *)
(* most, alone or with a media file, runs to its end and its modal is      *)
(* closed; then a chat of the store is deleted.  Any batch, saveChat and   *)
(* saveMedia may fail.                                                     *)
(***************************************************************************)
Img == [stem |-> "IMG", cap |-> FALSE, ext |-> "jpg", day |-> 1, at |-> 0]

\* an instant of day 1
T1 == TicksPerDay

ImportLineSet ==
    {HeaderLine(T1, "A", Text("hi")),
     HeaderLine(T1, "B", Attached(Img)),
     ContLine(Text("more"))}

ImportTexts == UNION {[1..n -> ImportLineSet] : n \in 1..MaxLines}

ImportMediaSets == {<<>>, <<Img>>}

StoreErrors == {"QuotaExceededError"}

PriorLines == <<HeaderLine(T1, "B", Attached(Img)), HeaderLine(T1, "A", Text("hi"))>>

PriorFinal ==
    FinalMessages(ParseFinish(ProcessLines(ParseInit, PriorLines, 0, Len(PriorLines))),
                  <<Img>>)

RECURSIVE SaveAllMedia(_, _, _, _)
\* the media store after the saveMedia loop over finalMessages[1..n]
SaveAllMedia(store, finalMessages, mediaFiles, n) ==
    IF n = 0 THEN store
    ELSE LET rest == SaveAllMedia(store, finalMessages, mediaFiles, n - 1)
             msg == finalMessages[n]
             file == FileMapGet(mediaFiles, msg.mediaFileName)
         IN IF msg.mediaFileName # NoFile /\ file # 0
            THEN Put(rest, msg.id, [messageId |-> msg.id, blob |-> file,
                                    fileName |-> mediaFiles[file]])
            ELSE rest

Init ==
    /\ \E prior \in BOOLEAN :
          IF prior
          THEN /\ chatsDB = Put(<<>>, "c0", NewChat("c0", "chat", PriorFinal, FALSE, 0))
               /\ messagesDB = PutChunk(<<>>, PriorFinal, "c0", 0, Len(PriorFinal))
               /\ mediaDB = SaveAllMedia(<<>>, PriorFinal, <<Img>>, Len(PriorFinal))
          ELSE /\ chatsDB = <<>>
               /\ messagesDB = <<>>
               /\ mediaDB = <<>>
    /\ save = Idle
    /\ del = Idle
    /\ parse = Idle
    /\ imp = Idle
    /\ progress = <<>>
    /\ importing = FALSE
    /\ error = ""
    /\ loaded = NoLoad
    /\ match = Idle
    /\ chats = chatsDB
    /\ selectedChatId = ""
    /\ loading = ""
    /\ touch = Idle
    /\ pov = Idle
    /\ tryLine = Idle
    /\ pick = Idle
    /\ loads = NoLoads

\* ImportModal.handleReset, one second after the import returned the chat
\* (then onSuccess: useChats.loadChats) or on "Try Again": useImport.reset(),
\* and the activations are gone
ImportReset ==
    /\ imp.pc \in {"complete", "error"}
    /\ imp' = [pc |-> "closed"]
    /\ parse' = Idle
    /\ save' = Idle
    /\ importing' = FALSE
    /\ progress' = <<>>
    /\ error' = ""
    /\ chats' = IF imp.pc = "complete" THEN chatsDB ELSE chats
    /\ UNCHANGED <<dbVars, del, loaded, match, selectedChatId, loading, touch, pov, entryVars>>

\* a chat of the sidebar is deleted once the import modal has closed
DeleteChat(c, size) ==
    /\ imp.pc = "closed"
    /\ DeleteCall(c, size)

Next ==
    \/ \E lines \in ImportTexts, mediaFiles \in ImportMediaSets, size \in ChunkSizes :
          ImportStart(lines, mediaFiles, size)
    \/ ReaderProgress
    \/ ReaderError
    \/ ReaderLoad
    \/ ParseYield
    \/ ImportParsed
    \/ ImportParseFailed
    \/ \E size \in ChunkSizes : ImportChatSaved(size)
    \/ \E e \in StoreErrors : ImportChatSaveFailed(e)
    \/ SaveBatchCommit
    \/ \E e \in StoreErrors : SaveBatchFail(e)
    \/ SaveYield
    \/ ImportMessagesSaved
    \/ ImportSaveFailed
    \/ ImportMediaSaved
    \/ \E e \in StoreErrors : ImportMediaSaveFailed(e)
    \/ ImportReset
    \/ \E c \in DOMAIN chats, size \in ChunkSizes : DeleteChat(c, size)
    \/ DeleteEnumerate
    \/ DeleteBatchCommit
    \/ \E e \in StoreErrors : DeleteBatchFail(e)
    \/ DeleteYield
    \/ DeleteReturned

Spec == Init /\ [][Next]_vars

\* the steps the store owes a running import, and the continuations after
\* them: every IndexedDB request or transaction ends in success or in an
\* error, the setTimeout(resolve, 0) of saveMessages fires
ImportStep ==
    \/ \E size \in ChunkSizes : ImportChatSaved(size)
    \/ \E e \in StoreErrors : ImportChatSaveFailed(e)
    \/ SaveBatchCommit
    \/ \E e \in StoreErrors : SaveBatchFail(e)
    \/ SaveYield
    \/ ImportMessagesSaved
    \/ ImportSaveFailed
    \/ ImportMediaSaved
    \/ \E e \in StoreErrors : ImportMediaSaveFailed(e)

\* the import awaits parseWhatsAppChat: the FileReader owes load or error,
\* the parser's setTimeout(resolve, 0) between chunks fires, and the
\* import resumes when the promise is settled.  One of ReaderLoad,
\* ReaderError, ParseYield, ImportParsed, ImportParseFailed is enabled
\* exactly in ParsePending; ParseStepped describes their steps by what they
\* change (a reader progress event changes neither)
ParsePending == imp.pc = "parsing"

ParseStepped ==
    /\ imp.pc = "parsing"
    /\ \/ imp'.pc # "parsing"
       \/ parse'.pc # parse.pc
       \/ parse'.chunkStart # parse.chunkStart

\* the import specification under fair scheduling: weak fairness of the
\* store's steps, and weak fairness of the parsing steps with their
\* enabling condition written out
SpecLive ==
    /\ Init
    /\ [][Next]_vars
    /\ WF_vars(ImportStep)
    /\ ([]<>~ParsePending \/ []<><<ParseStepped>>_vars)

(***************************************************************************)
(* The chat view: App.handleSelectChat, useChats.updateChatLastOpened,     *)
(* useMessages, ChatView's default point of view, App.handleViewAsChange.  *)
(* touch.pc: "getChat" (await storage.getChat), "saveChat" (await          *)
(* storage.saveChat).  pov.pc: "saveChat" (await storage.saveChat),        *)
(* "loadChats" (await loadChats).                                          *)
(***************************************************************************)
\* the messages ChatView counts for a participant
SenderCount(messages, name) ==
    Cardinality({i \in 1..Len(messages) :
                    messages[i].sender = name /\ messages[i].type # "system"})

\* where a participant enters participantCounts
FirstAt(messages, name) ==
    CHOOSE i \in 1..Len(messages) :
        /\ messages[i].sender = name /\ messages[i].type # "system"
        /\ \A j \in 1..(i - 1) :
               ~(messages[j].sender = name /\ messages[j].type # "system")

\* ChatView's defaultParticipant: the first participant, in the order of
\* first appearance, with the greatest message count; NoSender for undefined
defaultParticipant(messages) ==
    LET names == {messages[i].sender :
                     i \in {j \in 1..Len(messages) :
                               messages[j].sender # NoSender
                               /\ messages[j].type # "system"}}
        top == {n \in names : \A m \in names :
                   SenderCount(messages, m) <= SenderCount(messages, n)}
    IN IF names = {} THEN NoSender
       ELSE CHOOSE n \in top : \A m \in top :
                FirstAt(messages, n) <= FirstAt(messages, m)

\* App.handleSelectChat(c) on a chat of the sidebar, no modal open: the
\* useMessages effect starts the load, updateChatLastOpened awaits getChat
SelectChat(c) ==
    /\ imp.pc = "closed"
    /\ del.pc = "idle"
    /\ selectedChatId = ""
    /\ selectedChatId' = c
    /\ loading' = c
    /\ touch' = [pc |-> "getChat", chatId |-> c, chat |-> <<>>]
    /\ UNCHANGED <<dbVars, save, del, parse, imp, uiVars, loaded, match, chats, pov, entryVars>>

\* storage.getChat resolved: chat.lastOpened = Date.now(), saveChat awaited
TouchGetChat ==
    /\ touch.pc = "getChat"
    /\ touch' = IF touch.chatId \in DOMAIN chatsDB
                THEN [touch EXCEPT !.pc = "saveChat",
                                   !.chat = <<[chatsDB[touch.chatId]
                                                  EXCEPT !.lastOpened = @ + 1]>>]
                ELSE Idle
    /\ UNCHANGED <<dbVars, save, del, parse, imp, uiVars, loaded, match, chats,
                   selectedChatId, loading, pov, entryVars>>

\* storage.saveChat of updateChatLastOpened resolved
TouchSaveChat ==
    /\ touch.pc = "saveChat"
    /\ chatsDB' = Put(chatsDB, touch.chat[1].id, touch.chat[1])
    /\ touch' = Idle
    /\ UNCHANGED <<messagesDB, mediaDB, save, del, parse, imp, uiVars, loaded, match,
                   chats, selectedChatId, loading, pov, entryVars>>

\* getMessagesForChat resolved: sort, setMessages; ChatView renders for the
\* selected chat of the chats state and its effect calls handleViewAsChange
\* with the default participant when the chat has no point of view
MessagesLoaded ==
    /\ loading # ""
    /\ LET messages == loadMessages(messagesDB, loading)
           participant == defaultParticipant(messages)
       IN /\ loaded' = [chatId |-> loading, messages |-> messages]
          /\ pov' = IF /\ pov.pc = "idle"
                       /\ selectedChatId \in DOMAIN chats
                       /\ chats[selectedChatId].currentViewAs = ""
                       /\ participant # NoSender
                    THEN [pc |-> "saveChat",
                          chat |-> <<[chats[selectedChatId]
                                        EXCEPT !.currentViewAs = participant]>>]
                    ELSE pov
    /\ loading' = ""
    /\ UNCHANGED <<dbVars, save, del, parse, imp, uiVars, match, chats,
                   selectedChatId, touch, entryVars>>

\* storage.saveChat(updatedChat) of handleViewAsChange resolved
PovSaveChat ==
    /\ pov.pc = "saveChat"
    /\ chatsDB' = Put(chatsDB, pov.chat[1].id, pov.chat[1])
    /\ pov' = [pc |-> "loadChats"]
    /\ UNCHANGED <<messagesDB, mediaDB, save, del, parse, imp, uiVars, loaded, match,
                   chats, selectedChatId, loading, touch, entryVars>>

\* loadChats of handleViewAsChange resolved
PovLoadChats ==
    /\ pov.pc = "loadChats"
    /\ chats' = chatsDB
    /\ pov' = Idle
    /\ UNCHANGED <<dbVars, save, del, parse, imp, uiVars, loaded, match,
                   selectedChatId, loading, touch, entryVars>>

(***************************************************************************)
(* The chat view specification: the store holds chat c0 and chat c1, the   *)
(* result of a completed import of a text file with a media file; a chat   *)
(* of the sidebar is selected and a chat is deleted, in any interleaving   *)
(* of their steps.                                                         *)
(***************************************************************************)
InitView ==
    /\ \E lines \in ImportTexts :
          LET st == ProcessLines(ParseInit, lines, 0, Len(lines))
              finalMessages == FinalMessages(ParseFinish(st), <<Img>>)
              prior == PutChunk(<<>>, PriorFinal, "c0", 0, Len(PriorFinal))
              priorMedia == SaveAllMedia(<<>>, PriorFinal, <<Img>>, Len(PriorFinal))
          IN /\ chatsDB = Put(Put(<<>>, "c0", NewChat("c0", "chat", PriorFinal, FALSE, 0)),
                              "c1", NewChat("c1", "chat", finalMessages,
                                            Cardinality(st.senderSet) > 2, 0))
             /\ messagesDB = PutChunk(prior, finalMessages, "c1", 0, Len(finalMessages))
             /\ mediaDB = SaveAllMedia(priorMedia, finalMessages, <<Img>>,
                                       Len(finalMessages))
    /\ save = Idle
    /\ del = Idle
    /\ parse = Idle
    /\ imp = [pc |-> "closed"]
    /\ progress = <<>>
    /\ importing = FALSE
    /\ error = ""
    /\ loaded = NoLoad
    /\ match = Idle
    /\ chats = chatsDB
    /\ selectedChatId = ""
    /\ loading = ""
    /\ touch = Idle
    /\ pov = Idle
    /\ tryLine = Idle
    /\ pick = Idle
    /\ loads = NoLoads

NextView ==
    \/ \E c \in DOMAIN chats : SelectChat(c)
    \/ TouchGetChat
    \/ TouchSaveChat
    \/ MessagesLoaded
    \/ PovSaveChat
    \/ PovLoadChats
    \/ \E c \in DOMAIN chats, size \in ChunkSizes : DeleteChat(c, size)
    \/ DeleteEnumerate
    \/ DeleteBatchCommit
    \/ \E e \in StoreErrors : DeleteBatchFail(e)
    \/ DeleteYield
    \/ DeleteReturned

SpecView == InitView /\ [][NextView]_vars

(***************************************************************************)
(* The selection specification: the store holds chat c0 and chat c1; chats *)
(* of the sidebar are selected one after the other, the selection is       *)
(* cleared with the back button, and the loads of useMessages, which an    *)
(* effect starts at every change of the chat id, settle in any order.      *)
(* loads.pending lists the chat ids of the loads not yet settled, in the   *)
(* order they were started.                                                *)
(***************************************************************************)
SelectLines == <<HeaderLine(2 * T1, "A", Text("hi"))>>

SelectFinal ==
    ParseFinish(ProcessLines(ParseInit, SelectLines, 0, Len(SelectLines)))

\* App.handleSelectChat(c): setSelectedChatId(c), updateChatLastOpened(c)
\* up to its await; the useMessages effect runs when the chat id changed
SelectNext(c) ==
    /\ imp.pc = "closed"
    /\ del.pc = "idle"
    /\ touch.pc = "idle"
    /\ loads.started < MaxSelects
    /\ selectedChatId' = c
    /\ loads' = [pending |-> IF c # selectedChatId
                             THEN Append(loads.pending, c) ELSE loads.pending,
                 started |-> loads.started + 1]
    /\ touch' = [pc |-> "getChat", chatId |-> c, chat |-> <<>>]
    /\ UNCHANGED <<dbVars, save, del, parse, imp, uiVars, loaded, match, chats, loading,
                   pov, tryLine, pick>>

\* onBack: setSelectedChatId(null); the effect runs setMessages([])
Back ==
    /\ selectedChatId # ""
    /\ selectedChatId' = ""
    /\ loaded' = NoLoad
    /\ UNCHANGED <<dbVars, save, del, parse, imp, uiVars, match, chats, loading, touch,
                   pov, entryVars>>

\* the getMessagesForChat of the i-th pending load resolved: sort,
\* setMessages, setLoading(false); ChatView's effect as in MessagesLoaded
LoadSettled(i) ==
    /\ i \in 1..Len(loads.pending)
    /\ LET messages == loadMessages(messagesDB, loads.pending[i])
           participant == defaultParticipant(messages)
       IN /\ loaded' = [chatId |-> loads.pending[i], messages |-> messages]
          /\ pov' = IF /\ pov.pc = "idle"
                       /\ selectedChatId \in DOMAIN chats
                       /\ chats[selectedChatId].currentViewAs = ""
                       /\ participant # NoSender
                    THEN [pc |-> "saveChat",
                          chat |-> <<[chats[selectedChatId]
                                        EXCEPT !.currentViewAs = participant]>>]
                    ELSE pov
    /\ loads' = [loads EXCEPT !.pending = SubSeq(@, 1, i - 1)
                                            \o SubSeq(@, i + 1, Len(@))]
    /\ UNCHANGED <<dbVars, save, del, parse, imp, uiVars, match, chats, selectedChatId,
                   loading, touch, tryLine, pick>>

InitSelect ==
    /\ chatsDB = Put(Put(<<>>, "c0", NewChat("c0", "chat", PriorFinal, FALSE, 0)),
                     "c1", NewChat("c1", "chat", SelectFinal, FALSE, 0))
    /\ messagesDB = PutChunk(PutChunk(<<>>, PriorFinal, "c0", 0, Len(PriorFinal)),
                             SelectFinal, "c1", 0, Len(SelectFinal))
    /\ mediaDB = SaveAllMedia(<<>>, PriorFinal, <<Img>>, Len(PriorFinal))
    /\ save = Idle
    /\ del = Idle
    /\ parse = Idle
    /\ imp = [pc |-> "closed"]
    /\ progress = <<>>
    /\ importing = FALSE
    /\ error = ""
    /\ loaded = NoLoad
    /\ match = Idle
    /\ chats = chatsDB
    /\ selectedChatId = ""
    /\ loading = ""
    /\ touch = Idle
    /\ pov = Idle
    /\ tryLine = Idle
    /\ pick = Idle
    /\ loads = NoLoads

NextSelect ==
    \/ \E c \in DOMAIN chats : SelectNext(c)
    \/ Back
    \/ \E i \in 1..MaxSelects : LoadSettled(i)
    \/ TouchGetChat
    \/ TouchSaveChat
    \/ PovSaveChat
    \/ PovLoadChats

SpecSelect == InitSelect /\ [][NextSelect]_vars

(***************************************************************************)
(* matchMediaToMessages as an activation.  pc: "call" (entered),           *)
(* "strategy2" (strategy 1 has run), "collect" (strategy 2 has run),       *)
(* "returned".  The function is synchronous: nothing interleaves.          *)
(***************************************************************************)
MatchCall(messages, mediaFiles) ==
    [pc |-> "call", messages |-> messages, mediaFiles |-> mediaFiles,
     st |-> MatchStart(messages, <<>>), result |-> <<>>]

MatchEarlyReturn ==
    /\ match.pc = "call"
    /\ Len(match.mediaFiles) = 0
    /\ match' = [match EXCEPT
           !.pc = "returned",
           !.result = <<matchMediaToMessages(match.messages, match.mediaFiles)>>]
    /\ UNCHANGED <<dbVars, save, del, parse, imp, uiVars, loaded, appVars, entryVars>>

MatchStrategy1 ==
    /\ match.pc = "call"
    /\ Len(match.mediaFiles) > 0
    /\ match' = [match EXCEPT
           !.pc = "strategy2",
           !.st = Strategy1(MatchStart(match.messages, match.mediaFiles),
                            Len(match.messages))]
    /\ UNCHANGED <<dbVars, save, del, parse, imp, uiVars, loaded, appVars, entryVars>>

MatchStrategy2 ==
    /\ match.pc = "strategy2"
    /\ match' = [match EXCEPT
           !.pc = "collect",
           !.st = Strategy2(match.st, UnmatchedWithTimestamp(match.st.lookup),
                            UnmatchedMediaMsgs(match.st.matchedMessages),
                            Len(match.messages))]
    /\ UNCHANGED <<dbVars, save, del, parse, imp, uiVars, loaded, appVars, entryVars>>

MatchCollect ==
    /\ match.pc = "collect"
    /\ match' = [match EXCEPT
           !.pc = "returned",
           !.result = <<MatchResult(match.st, match.mediaFiles)>>]
    /\ UNCHANGED <<dbVars, save, del, parse, imp, uiVars, loaded, appVars, entryVars>>

(***************************************************************************)
(* The matcher specification: the messages are the parser's for a text of  *)
(* MaxMatchMsgs header lines at most, the candidates a list of             *)
(* MaxMatchFiles files at most: IMG.jpg, IMG.heic and VID.mp4, whose names *)
(* spell day 1, IMG.JPG, equal to IMG.jpg up to letter case, "WhatsApp     *)
(* Image.jpg", whose name spells a later time of day 1, and doc.pdf, whose *)
(* name spells no day.  A list may hold a name twice (two File objects).   *)
(* The messages are of day 1 but for one "<Media omitted>" of day 2.       *)
(***************************************************************************)
ImgUpper == [Img EXCEPT !.cap = TRUE]
Vid == [stem |-> "VID", cap |-> FALSE, ext |-> "mp4", day |-> 1, at |-> 0]
Doc == [stem |-> "doc", cap |-> FALSE, ext |-> "pdf", day |-> 0, at |-> 0]
Shot == [stem |-> "WhatsApp Image", cap |-> FALSE, ext |-> "jpg", day |-> 1, at |-> 1]
Heic == [stem |-> "IMG", cap |-> FALSE, ext |-> "heic", day |-> 1, at |-> 0]

MatchLineSet ==
    {HeaderLine(T1, "A", Text("hi")),
     HeaderLine(T1, "B", Attached(Img)),
     HeaderLine(T1, "B", Attached(Heic)),
     HeaderLine(T1, "B", Text("<Media omitted>")),
     HeaderLine(2 * T1, "B", Text("<Media omitted>"))}

MatchTexts == UNION {[1..n -> MatchLineSet] : n \in 0..MaxMatchMsgs}

MatchFileLists == UNION {[1..n -> {Img, ImgUpper, Vid, Doc, Shot, Heic}] : n \in 0..MaxMatchFiles}

InitMatch ==
    /\ chatsDB = <<>>
    /\ messagesDB = <<>>
    /\ mediaDB = <<>>
    /\ save = Idle
    /\ del = Idle
    /\ parse = Idle
    /\ imp = Idle
    /\ progress = <<>>
    /\ importing = FALSE
    /\ error = ""
    /\ loaded = NoLoad
    /\ \E lines \in MatchTexts, mediaFiles \in MatchFileLists :
          match = MatchCall(ParseFinish(ProcessLines(ParseInit, lines, 0, Len(lines))),
                            mediaFiles)
    /\ chats = <<>>
    /\ selectedChatId = ""
    /\ loading = ""
    /\ touch = Idle
    /\ pov = Idle
    /\ tryLine = Idle
    /\ pick = Idle
    /\ loads = NoLoads

NextMatch == MatchEarlyReturn \/ MatchStrategy1 \/ MatchStrategy2 \/ MatchCollect

SpecMatch == InitMatch /\ [][NextMatch]_vars

(***************************************************************************)
(* The ordering specification: a first import without media, from the      *)
(* parser's result to the chat view.  The log is MaxOrderMsgs header lines *)
(* at most, "[ts] A: hi", with instants 1..MaxOrderTs in ascending order   *)
(* (several lines may carry the same instant, as the lines of one minute   *)
(* do in an export).                                                       *)
(***************************************************************************)
OrderLines ==
    UNION {{l \in [1..n -> {HeaderLine(ts, "A", Text("hi")) : ts \in 1..MaxOrderTs}] :
               \A i \in 1..(n - 1) : l[i].ts <= l[i + 1].ts} :
              n \in 0..MaxOrderMsgs}

InitOrder ==
    /\ chatsDB = <<>>
    /\ messagesDB = <<>>
    /\ mediaDB = <<>>
    /\ \E lines \in OrderLines, size \in ChunkSizes :
          save = SaveCall(ParseFinish(ProcessLines(ParseInit, lines, 0, Len(lines))),
                          "c1", size, <<>>)
    /\ del = Idle
    /\ parse = Idle
    /\ imp = Idle
    /\ progress = <<>>
    /\ importing = FALSE
    /\ error = ""
    /\ loaded = NoLoad
    /\ match = Idle
    /\ chats = chatsDB
    /\ selectedChatId = ""
    /\ loading = ""
    /\ touch = Idle
    /\ pov = Idle
    /\ tryLine = Idle
    /\ pick = Idle
    /\ loads = NoLoads

OrderLoad ==
    /\ save.pc = "done"
    /\ loaded = NoLoad
    /\ LoadMessages(save.chatId)

NextOrder == SaveBatchCommit \/ SaveYield \/ OrderLoad

SpecOrder == InitOrder /\ [][NextOrder]_vars

(***************************************************************************)
(* The parser specification: parseWhatsAppChat on a text of MaxParseLines  *)
(* lines at most (text.split('\n') yields at least one), each a blank      *)
(* line, a continuation or a header: "[ts] A: hi", "[ts] A:" (no content), *)
(* "[ts] B: IMG.jpg (file attached)", "[ts] C: notes.txt (file attached)"  *)
(* (an extension that is no media placeholder) or "[ts] You left" (no      *)
(* sender).  All headers carry the same instant.                           *)
(***************************************************************************)
Note == [stem |-> "notes", cap |-> FALSE, ext |-> "txt", day |-> 0, at |-> 0]

ParseLineSet ==
    {BlankLine,
     ContLine(Text("more")),
     HeaderLine(T1, "A", Text("hi")),
     HeaderLine(T1, "A", EmptyLine),
     HeaderLine(T1, "B", Attached(Img)),
     HeaderLine(T1, "C", Attached(Note)),
     HeaderLine(T1, NoSender, Text("You left"))}

ParseTexts == UNION {[1..n -> ParseLineSet] : n \in 1..MaxParseLines}

InitParse ==
    /\ chatsDB = <<>>
    /\ messagesDB = <<>>
    /\ mediaDB = <<>>
    /\ save = Idle
    /\ del = Idle
    /\ \E lines \in ParseTexts, size \in ChunkSizes : parse = ParseCall(lines, size)
    /\ imp = Idle
    /\ progress = <<>>
    /\ importing = FALSE
    /\ error = ""
    /\ loaded = NoLoad
    /\ match = Idle
    /\ chats = <<>>
    /\ selectedChatId = ""
    /\ loading = ""
    /\ touch = Idle
    /\ pov = Idle
    /\ tryLine = Idle
    /\ pick = Idle
    /\ loads = NoLoads

NextParse == ReaderProgress \/ ReaderError \/ ReaderLoad \/ ParseYield

SpecParse == InitParse /\ [][NextParse]_vars

(***************************************************************************)
(* tryParseMessageLine.  A line is the sequence of its lexical pieces:     *)
(* "[", a date d<sep>m<sep>y (sep "/" or "."), ",", a run of white space,  *)
(* a time h:mm, seconds ":ss", an AM/PM marker, "]", "-" and free text.    *)
(* A pattern is the sequence of the pieces its regular expression asks     *)
(* for, each required or optional; no piece of a pattern can match what    *)
(* an optional piece before it declined, so matching is one pass from the  *)
(* left.  An instant is the calendar date and the second of the day handed *)
(* to new Date(year, month - 1, day, hour, minute, second).                *)
(***************************************************************************)
Piece(k, s, a, b, c) == [k |-> k, s |-> s, a |-> a, b |-> b, c |-> c]
Open == Piece("[", "", 0, 0, 0)
Close == Piece("]", "", 0, 0, 0)
Comma == Piece(",", "", 0, 0, 0)
Space == Piece("ws", "", 0, 0, 0)
Dash == Piece("-", "", 0, 0, 0)
DatePiece(sep, day, month, year) == Piece("date", sep, day, month, year)
TimePiece(hour, minute) == Piece("time", "", hour, minute, 0)
SecondsPiece(second) == Piece("sec", "", second, 0, 0)
Marker(ampm) == Piece("ampm", ampm, 0, 0, 0)
Words(t) == Piece("text", t, 0, 0, 0)

Req(k, s) == [k |-> k, s |-> s, opt |-> FALSE]
Opt(k, s) == [k |-> k, s |-> s, opt |-> TRUE]

TIMESTAMP_PATTERNS ==
    << <<Opt("[", ""), Req("date", "/"), Opt(",", ""), Req("ws", ""), Req("time", ""),
         Opt("sec", ""), Opt("]", ""), Opt("ws", ""), Opt("-", ""), Opt("ws", "")>>,
       <<Opt("[", ""), Req("date", "/"), Opt(",", ""), Req("ws", ""), Req("time", ""),
         Opt("ws", ""), Req("ampm", ""), Opt("]", ""), Opt("ws", ""), Opt("-", ""),
         Opt("ws", "")>>,
       <<Opt("[", ""), Req("date", "."), Opt(",", ""), Req("ws", ""), Req("time", ""),
         Opt("sec", ""), Opt("]", ""), Opt("ws", ""), Opt("-", ""), Opt("ws", "")>>,
       <<Req("date", "/"), Opt(",", ""), Req("ws", ""), Req("time", ""),
         Opt("sec", ""), Opt("ws", ""), Req("-", ""), Opt("ws", "")>> >>

RECURSIVE MatchLen(_, _, _, _)
\* line.match(pattern): the number of pieces match[0] spans, -1 for null;
\* i pieces of the line and j pieces of the pattern are consumed
MatchLen(line, pattern, i, j) ==
    IF j = Len(pattern) THEN i
    ELSE LET e == pattern[j + 1]
             fits == /\ i < Len(line)
                     /\ line[i + 1].k = e.k
                     /\ (e.s = "" \/ line[i + 1].s = e.s)
         IN IF fits THEN MatchLen(line, pattern, i + 1, j + 1)
            ELSE IF e.opt THEN MatchLen(line, pattern, i, j + 1)
            ELSE -1

\* the piece of kind k among the first n pieces of the line, <<>> for none
Group(line, n, k) ==
    IF \E i \in 1..n : line[i].k = k
    THEN <<line[CHOOSE i \in 1..n : line[i].k = k]>>
    ELSE <<>>

\* the instant of a match of n pieces under pattern patternIndex (0-based)
\* parseTimestamp with the pivot one year later: 50 counted as 2050
parseTimestampPivot51(line, n, patternIndex) ==
    LET date == Group(line, n, "date")[1]
        time == Group(line, n, "time")[1]
        year == IF date.c < 100
                THEN date.c + (IF date.c <= 50 THEN 2000 ELSE 1900)
                ELSE date.c
        isPM == Group(line, n, "ampm")[1].s \in {"PM", "pm"}
        hour == IF patternIndex = 1
                THEN IF isPM /\ time.a # 12 THEN time.a + 12
                     ELSE IF ~isPM /\ time.a = 12 THEN 0
                     ELSE time.a
                ELSE time.a
        second == IF patternIndex # 1 /\ Group(line, n, "sec") # <<>>
                  THEN Group(line, n, "sec")[1].a ELSE 0
    IN [year |-> year, month |-> date.b, day |-> date.a,
        secondOfDay |-> 3600 * hour + 60 * time.b + second]

parseTimestamp(line, n, patternIndex) ==
    LET date == Group(line, n, "date")[1]
        time == Group(line, n, "time")[1]
        year == IF date.c < 100
                THEN date.c + (IF date.c < 50 THEN 2000 ELSE 1900)
                ELSE date.c
        isPM == Group(line, n, "ampm")[1].s \in {"PM", "pm"}
        hour == IF patternIndex = 1
                THEN IF isPM /\ time.a # 12 THEN time.a + 12
                     ELSE IF ~isPM /\ time.a = 12 THEN 0
                     ELSE time.a
                ELSE time.a
        second == IF patternIndex # 1 /\ Group(line, n, "sec") # <<>>
                  THEN Group(line, n, "sec")[1].a ELSE 0
    IN [year |-> year, month |-> date.b, day |-> date.a,
        secondOfDay |-> 3600 * hour + 60 * time.b + second]

RECURSIVE TryFrom(_, _)
\* the loop over TIMESTAMP_PATTERNS from index i (0-based): the first
\* pattern that matches decides
TryFrom(line, i) ==
    IF i >= Len(TIMESTAMP_PATTERNS) THEN <<>>
    ELSE LET n == MatchLen(line, TIMESTAMP_PATTERNS[i + 1], 0, 0)
         IN IF n >= 0
            THEN <<[timestamp |-> parseTimestamp(line, n, i),
                    remainder |-> SubSeq(line, n + 1, Len(line))]>>
            ELSE TryFrom(line, i + 1)

\* <<>> for null
tryParseMessageLine(line) == TryFrom(line, 0)

\* the activation: pc "call" (entered with line), "returned"
TryCall(line) == [pc |-> "call", line |-> line, result |-> <<>>]

TryMatched ==
    /\ tryLine.pc = "call"
    /\ tryParseMessageLine(tryLine.line) # <<>>
    /\ tryLine' = [tryLine EXCEPT !.pc = "returned",
                                  !.result = tryParseMessageLine(tryLine.line)]
    /\ UNCHANGED <<dbVars, save, del, parse, imp, uiVars, loaded, match, appVars, pick, loads>>

TryNull ==
    /\ tryLine.pc = "call"
    /\ tryParseMessageLine(tryLine.line) = <<>>
    /\ tryLine' = [tryLine EXCEPT !.pc = "returned"]
    /\ UNCHANGED <<dbVars, save, del, parse, imp, uiVars, loaded, match, appVars, pick, loads>>

(***************************************************************************)
(* The line specification: tryParseMessageLine on one line, a date of      *)
(* 1 February with a two- or four-digit year, "/" or "." between its       *)
(* parts, in brackets or followed by " - ", a time with or without         *)
(* seconds or an AM/PM marker, then "A: hi"; or a line of free text.       *)
(***************************************************************************)
ClockHours == 1..12
DayHours == 0..23
ClockMinutes == {15, 59}
Markers == {"AM", "PM", "am", "pm"}
\* the year as written: two digits (0 .. 99) or four
Years == {0, 24, 49, 50, 99, 1999, 2024}

Stamp(bracket, date, clock) ==
    IF bracket
    THEN <<Open, date, Comma, Space>> \o clock \o <<Close, Space, Words("A: hi")>>
    ELSE <<date, Comma, Space>> \o clock \o <<Space, Dash, Space, Words("A: hi")>>

Clocks ==
    {<<TimePiece(h, m), Space, Marker(x)>> : h \in ClockHours, m \in ClockMinutes,
                                            x \in Markers}
    \cup {<<TimePiece(h, m)>> : h \in DayHours, m \in ClockMinutes}
    \cup {<<TimePiece(h, m), SecondsPiece(m)>> : h \in DayHours, m \in ClockMinutes}

LineShapes ==
    {Stamp(bracket, DatePiece(sep, 1, 2, y), clock) :
        bracket \in BOOLEAN, sep \in {"/", "."}, y \in Years, clock \in Clocks}
    \cup {<<Words("hello")>>}

InitLine ==
    /\ chatsDB = <<>>
    /\ messagesDB = <<>>
    /\ mediaDB = <<>>
    /\ save = Idle
    /\ del = Idle
    /\ parse = Idle
    /\ imp = Idle
    /\ progress = <<>>
    /\ importing = FALSE
    /\ error = ""
    /\ loaded = NoLoad
    /\ match = Idle
    /\ chats = <<>>
    /\ selectedChatId = ""
    /\ loading = ""
    /\ touch = Idle
    /\ pov = Idle
    /\ \E line \in LineShapes : tryLine = TryCall(line)
    /\ pick = Idle
    /\ loads = NoLoads

NextLine == TryMatched \/ TryNull

SpecLine == InitLine /\ [][NextLine]_vars

(***************************************************************************)
(* ImportModal.handleFileSelect.  A chosen file is the extension of its    *)
(* name, its first bytes (four at most, none for an empty file), whether   *)
(* JSZip can read it as an archive (it looks for the central directory at  *)
(* the end of the file), what the archive holds ("empty": no entry,        *)
(* "noTxt": no .txt entry, "chat": a .txt entry) and whether               *)
(* validateTextFile accepts the text.  pc: "select" (entered),             *)
(* "loadAsync" (await JSZip.loadAsync in extractZipFile), "importing"      *)
(* (handleValidationComplete went on to importChatWithMedia), "done"       *)
(* (a validation result that is not valid is shown).                       *)
(***************************************************************************)
\* 0x04034b50
ZipSignature == 67324752

\* DataView.getUint32(0, true) of the first four bytes
getUint32(bytes) ==
    bytes[1] + 256 * bytes[2] + 65536 * bytes[3] + 16777216 * bytes[4]

Invalid(errorMessage, fileType) ==
    [valid |-> FALSE, error |-> errorMessage, fileType |-> fileType, warnings |-> {}]
Valid(fileType) ==
    [valid |-> TRUE, error |-> "", fileType |-> fileType, warnings |-> {}]

\* lines.slice(0, 50): the number of lines of the sample that are tested
SampleLimit == 50

FormatWarning == "Many lines do not match WhatsApp format"

\* file.sample is the list of the non-blank lines of the first 10 KB of the
\* file (sample.split('\n').filter(line => line.trim())), each line given
\* as whether isWhatsAppLine accepts it.  The loop over the first 50:
validLineCount(file) ==
    Cardinality({i \in 1..Min(Len(file.sample), SampleLimit) : file.sample[i]})

\* validLineCount < lines.length * 0.3, in tenths
FewLinesMatch(file) == 10 * validLineCount(file) < 3 * Len(file.sample)

\* validateTextFile with the default options; the error of a sample
\* without a timestamp is given by its first words
validateTextFile(file) ==
    IF Len(file.bytes) = 0 THEN Invalid("File is empty", "txt")
    ELSE IF validLineCount(file) = 0
    THEN Invalid("No WhatsApp messages detected", "txt")
    ELSE [Valid("txt") EXCEPT
             !.warnings = IF FewLinesMatch(file) THEN {FormatWarning} ELSE {}]

validateZipFile(file) ==
    IF file.ext # "zip" THEN Invalid("File must be a .zip file", "unknown")
    ELSE IF Len(file.bytes) = 0 THEN Invalid("ZIP file is empty", "zip")
    ELSE IF Len(file.bytes) < 4 THEN Invalid("Failed to read ZIP file", "zip")
    ELSE IF getUint32(file.bytes) # ZipSignature
    THEN Invalid("File is not a valid ZIP archive", "zip")
    ELSE Valid("zip")

validateInput(file) ==
    IF file.ext = "txt" THEN validateTextFile(file)
    ELSE IF file.ext = "zip" THEN validateZipFile(file)
    ELSE Invalid("Unsupported file type", "unknown")

\* extractZipFile after JSZip.loadAsync resolved, as the validation result
\* handleFileSelect makes of it
extractZipFile(file) ==
    IF file.entries = "empty" THEN Invalid("ZIP archive is empty", "zip")
    ELSE IF file.entries = "noTxt"
    THEN Invalid("No WhatsApp chat .txt file found in ZIP archive", "zip")
    ELSE IF validLineCount(file) = 0
    THEN Invalid("No WhatsApp messages detected", "zip")
    ELSE Valid("zip")

PickCall(file) ==
    [pc |-> "select", file |-> file, loadAsync |-> FALSE, validationResult |-> <<>>]

\* handleValidationComplete(result)
PickCompleted(p, result) ==
    [p EXCEPT !.pc = IF result.valid THEN "importing" ELSE "done",
              !.validationResult = <<result>>]

\* ext === 'zip': extractZipFile(file, ...) up to await JSZip.loadAsync
PickExtract ==
    /\ pick.pc = "select"
    /\ pick.file.ext = "zip"
    /\ pick' = [pick EXCEPT !.pc = "loadAsync", !.loadAsync = TRUE]
    /\ UNCHANGED <<dbVars, save, del, parse, imp, uiVars, loaded, match, appVars, tryLine, loads>>

\* JSZip.loadAsync rejects: extractZipFile's catch, then the else branch
PickLoadRejected ==
    /\ pick.pc = "loadAsync"
    /\ ~pick.file.archive
    /\ pick' = PickCompleted(pick, Invalid("Failed to extract ZIP", "zip"))
    /\ UNCHANGED <<dbVars, save, del, parse, imp, uiVars, loaded, match, appVars, tryLine, loads>>

\* JSZip.loadAsync resolves: the rest of extractZipFile
PickLoadResolved ==
    /\ pick.pc = "loadAsync"
    /\ pick.file.archive
    /\ pick' = PickCompleted(pick, extractZipFile(pick.file))
    /\ UNCHANGED <<dbVars, save, del, parse, imp, uiVars, loaded, match, appVars, tryLine, loads>>

\* any other extension: validateInput(file)
PickValidate ==
    /\ pick.pc = "select"
    /\ pick.file.ext # "zip"
    /\ pick' = PickCompleted(pick, validateInput(pick.file))
    /\ UNCHANGED <<dbVars, save, del, parse, imp, uiVars, loaded, match, appVars, tryLine, loads>>

(***************************************************************************)
(* The file selection specification: one chosen file, its name ending in   *)
(* .zip, .txt or .pdf, its first bytes "PK\x03\x04", "MZ\x90\x00" (an      *)
(* executable, as a self-extracting archive starts), "[1/2" (a chat log)   *)
(* or none.                                                                *)
(***************************************************************************)
HeaderBytes == {<<80, 75, 3, 4>>, <<77, 90, 144, 0>>, <<91, 49, 47, 50>>, <<>>}

ChosenFiles ==
    {f \in [ext : {"zip", "txt", "pdf"}, bytes : HeaderBytes, archive : BOOLEAN,
            entries : {"empty", "noTxt", "chat"}, sample : {<<FALSE>>, <<TRUE>>}] :
        f.bytes = <<>> => ~f.archive}

InitPick ==
    /\ chatsDB = <<>>
    /\ messagesDB = <<>>
    /\ mediaDB = <<>>
    /\ save = Idle
    /\ del = Idle
    /\ parse = Idle
    /\ imp = Idle
    /\ progress = <<>>
    /\ importing = FALSE
    /\ error = ""
    /\ loaded = NoLoad
    /\ match = Idle
    /\ chats = <<>>
    /\ selectedChatId = ""
    /\ loading = ""
    /\ touch = Idle
    /\ pov = Idle
    /\ tryLine = Idle
    /\ \E file \in ChosenFiles : pick = PickCall(file)
    /\ loads = NoLoads

NextPick == PickExtract \/ PickLoadRejected \/ PickLoadResolved \/ PickValidate

SpecPick == InitPick /\ [][NextPick]_vars

(***************************************************************************)
(* The sample specification: validateTextFile on a .txt file whose 10 KB   *)
(* sample has up to MaxSampleLines non-blank lines; of its first           *)
(* SampleLimit lines the first v carry a timestamp, and the lines after    *)
(* them all do or all do not.                                              *)
(***************************************************************************)
SampleOf(n, v, rest) ==
    [i \in 1..n |-> IF i <= SampleLimit THEN i <= v ELSE rest]

SampleFiles ==
    {[ext |-> "txt", bytes |-> <<91, 49, 47, 50>>, archive |-> FALSE,
      entries |-> "chat", sample |-> SampleOf(n, v, rest)] :
        n \in 1..MaxSampleLines, v \in 0..SampleLimit, rest \in BOOLEAN}

InitSample ==
    /\ chatsDB = <<>>
    /\ messagesDB = <<>>
    /\ mediaDB = <<>>
    /\ save = Idle
    /\ del = Idle
    /\ parse = Idle
    /\ imp = Idle
    /\ progress = <<>>
    /\ importing = FALSE
    /\ error = ""
    /\ loaded = NoLoad
    /\ match = Idle
    /\ chats = <<>>
    /\ selectedChatId = ""
    /\ loading = ""
    /\ touch = Idle
    /\ pov = Idle
    /\ tryLine = Idle
    /\ \E file \in SampleFiles : pick = PickCall(file)
    /\ loads = NoLoads

NextSample == PickValidate

SpecSample == InitSample /\ [][NextSample]_vars

(***************************************************************************)
(* validateFolder, called by ImportModal.handleFolderSelect through        *)
(* validateInput.  A file of the list has its name without the extension   *)
(* as code units, its extension, its first bytes and its sample.  The      *)
(* files of the model are chat files and media files of an allowed         *)
(* extension and size, so nothing is skipped.                              *)
(***************************************************************************)
\* file.name for a file of the list
FileName(file) ==
    file.name \o <<46>> \o (IF file.ext = "txt" THEN <<116, 120, 116>>
                            ELSE <<106, 112, 103>>)

FirstUsedWarning(file) == [text |-> "will use the first one", name |-> FileName(file)]

FolderResult(valid, errorMessage, warnings, txtFile) ==
    [valid |-> valid, error |-> errorMessage, fileType |-> "folder",
     warnings |-> warnings, txtFile |-> txtFile]

validateFolder(files) ==
    LET IsTxt(file) == file.ext = "txt"
        txtFiles == SelectSeq(files, IsTxt)
        warnings == IF Len(txtFiles) > 1 THEN {FirstUsedWarning(txtFiles[1])} ELSE {}
        txtValidation == validateTextFile(txtFiles[1])
    IN IF Len(files) = 0 THEN FolderResult(FALSE, "Folder is empty", {}, <<>>)
       ELSE IF Len(txtFiles) = 0
       THEN FolderResult(FALSE, "No WhatsApp chat .txt file found in folder", {}, <<>>)
       ELSE IF ~txtValidation.valid
       THEN FolderResult(FALSE, txtValidation.error,
                         txtValidation.warnings \cup warnings, <<>>)
       ELSE FolderResult(TRUE, "", txtValidation.warnings \cup warnings,
                         <<txtFiles[1]>>)

\* handleFolderSelect(files) with a list that is not empty, up to the await
FolderCall(files) ==
    [pc |-> "folder", files |-> files, loadAsync |-> FALSE, validationResult |-> <<>>]

\* validateInput(files) resolved: handleValidationComplete(result)
FolderValidate ==
    /\ pick.pc = "folder"
    /\ pick' = PickCompleted(pick, validateFolder(pick.files))
    /\ UNCHANGED <<dbVars, save, del, parse, imp, uiVars, loaded, match, appVars, tryLine, loads>>

(***************************************************************************)
(* The folder specification: a folder of MaxFolderFiles files at most, of  *)
(* different names, among them chat files a.txt, b.txt, c.txt, each a chat *)
(* log or not, and the picture I.jpg, listed in any order.                 *)
(***************************************************************************)
FolderFiles ==
    {[name |-> <<n>>, ext |-> "txt", bytes |-> <<91, 49, 47, 50>>, sample |-> <<ok>>] :
        n \in {97, 98, 99}, ok \in BOOLEAN}
    \cup {[name |-> <<73>>, ext |-> "jpg", bytes |-> <<255, 216, 255, 224>>,
           sample |-> <<>>]}

Folders ==
    {files \in UNION {[1..n -> FolderFiles] : n \in 1..MaxFolderFiles} :
        \A i, j \in 1..Len(files) : files[i].name = files[j].name => i = j}

InitFolder ==
    /\ chatsDB = <<>>
    /\ messagesDB = <<>>
    /\ mediaDB = <<>>
    /\ save = Idle
    /\ del = Idle
    /\ parse = Idle
    /\ imp = Idle
    /\ progress = <<>>
    /\ importing = FALSE
    /\ error = ""
    /\ loaded = NoLoad
    /\ match = Idle
    /\ chats = <<>>
    /\ selectedChatId = ""
    /\ loading = ""
    /\ touch = Idle
    /\ pov = Idle
    /\ tryLine = Idle
    /\ \E files \in Folders : pick = FolderCall(files)
    /\ loads = NoLoads

NextFolder == FolderValidate

SpecFolder == InitFolder /\ [][NextFolder]_vars

(***************************************************************************)
(* The properties.                                                         *)
(***************************************************************************)
\* the message ids of a sequence of messages
Ids(messages) == [i \in 1..Len(messages) |-> messages[i].id]

(* C1: the messages a chat view loads back from the store are in the order *)
(* the parser produced them, whatever the chunk size, also with equal      *)
(* timestamps and with timestamps that are not ascending.                  *)
C1_LoadOrderIsParseOrder ==
    loaded.chatId = save.chatId => Ids(loaded.messages) = Ids(save.messages)

(* C2: when saveMessages has run to completion, the messages store is the  *)
(* store the call started from with every input record put under its id    *)
(* and the call's chatId: a function of the input alone, the same for      *)
(* every chunk size.                                                       *)
C2_ChunkSizeIndependent ==
    save.pc = "done" =>
        messagesDB = PutChunk(save.before, save.messages, save.chatId, 0,
                              Len(save.messages))

\* a completed call of several batches, the last one partial
C2_Witness ==
    /\ save.pc = "done"
    /\ save.batches > 1
    /\ save.CHUNK_SIZE > 1
    /\ Len(save.messages) < save.batches * save.CHUNK_SIZE

\* the result record of the returned matcher
Result == match.result[1]

\* the messages the matcher enriched, by strategy 1 or strategy 2
Enriched == {Result.claims[c].message : c \in 1..Len(Result.claims)}

(* C3: in the matcher's result no two messages carry the name of the same  *)
(* candidate file as mediaFileName, no file is claimed for two messages,   *)
(* no message claims two files, and strategy 2 claims no file strategy 1   *)
(* has claimed.                                                            *)
C3_AtMostOneBinding ==
    match.pc = "returned" =>
        /\ \A i, j \in 1..Len(Result.matchedMessages) :
               (i # j /\ Result.matchedMessages[i].mediaFileName # NoFile
                  /\ \E f \in 1..Len(match.mediaFiles) :
                         match.mediaFiles[f] = Result.matchedMessages[i].mediaFileName)
               => Result.matchedMessages[i].mediaFileName
                     # Result.matchedMessages[j].mediaFileName
        /\ \A c, d \in 1..Len(Result.claims) :
               c # d => /\ Result.claims[c].file # Result.claims[d].file
                        /\ Result.claims[c].message # Result.claims[d].message

(* C4: in the matcher's result unmatchedMedia is exactly the input files   *)
(* that were not claimed, no file is claimed twice, and matchCount plus    *)
(* the length of unmatchedMedia is totalMedia.                             *)
C4_MatchAccounting ==
    match.pc = "returned" =>
        /\ Result.matchCount + Len(Result.unmatchedMedia) = Result.totalMedia
        /\ {Result.unmatchedMedia[u] : u \in 1..Len(Result.unmatchedMedia)}
              = (1..Len(match.mediaFiles))
                   \ {Result.claims[c].file : c \in 1..Len(Result.claims)}
        /\ \A c, d \in 1..Len(Result.claims) :
               c # d => Result.claims[c].file # Result.claims[d].file

(* C5: matchCount, the number of claimed files, is the number of messages  *)
(* the matcher enriched.                                                   *)
C5_MatchCountIsEnriched ==
    match.pc = "returned" => Result.matchCount = Cardinality(Enriched)

\* a result with a message enriched by each strategy
C5_Witness ==
    /\ match.pc = "returned"
    /\ Result.matchCount = 2
    /\ \E c, d \in 1..Len(Result.claims) :
          Result.claims[c].strategy = 1 /\ Result.claims[d].strategy = 2

(* C6: once deleteChat(c) has run to completion, no batch having failed,   *)
(* the store holds no chat record c, no message record of chat c and no    *)
(* media record under the id of a message that belonged to c.              *)
C6_DeleteChatCascades ==
    del.pc = "done" =>
        /\ del.chatId \notin DOMAIN chatsDB
        /\ \A k \in DOMAIN messagesDB : messagesDB[k].chatId # del.chatId
        /\ \A k \in del.belonged : k \notin DOMAIN mediaDB

(* C7: when batch k of saveMessages has failed, the store holds the        *)
(* records of batches 1..k-1, the first (k-1)*C input records, no batch    *)
(* after k is attempted, and the import ends in status error with the      *)
(* failure's message.                                                      *)
C7_BatchFailureKeepsPrefix ==
    save.pc = "failed" =>
        /\ save.batches = save.attempts - 1
        /\ messagesDB = PutChunk(save.before, save.messages, save.chatId, 0,
                                 (save.attempts - 1) * save.CHUNK_SIZE)
        /\ imp.pc \in {"saveMessages", "error"}
        /\ imp.pc = "error" =>
               /\ progress # <<>>
               /\ progress[1].status = "error"
               /\ progress[1].error = save.error
               /\ error = save.error

\* the import has ended after the failure of a second or later batch
C7_Witness ==
    /\ save.pc = "failed"
    /\ save.attempts > 1
    /\ imp.pc = "error"
    /\ DOMAIN messagesDB # DOMAIN save.before

\* processed never decreases and total is the same in successive reports
Monotone(reports) ==
    \A i \in 1..(Len(reports) - 1) :
        reports[i][1] <= reports[i + 1][1] /\ reports[i][2] = reports[i + 1][2]

\* the last report, if there is one, has processed = total
FinalIsTotal(reports) ==
    reports # <<>> => reports[Len(reports)][1] = reports[Len(reports)][2]

(* C8: the progress callbacks of the line processing of parseWhatsAppChat, *)
(* of saveMessages and of deleteChat never go down in processed, keep the  *)
(* same total, and the last callback of an operation that has run to its   *)
(* end reports processed = total.                                          *)
C8_ProgressMonotone ==
    /\ parse.pc # "idle" =>
           /\ Monotone(parse.reports)
           /\ parse.pc = "done" =>
                  parse.reports # <<>> /\ FinalIsTotal(parse.reports)
    /\ save.pc # "idle" =>
           /\ Monotone(save.reports)
           /\ save.pc = "done" => FinalIsTotal(save.reports)
    /\ del.pc # "idle" =>
           /\ Monotone(del.reports)
           /\ del.pc = "done" => FinalIsTotal(del.reports)

\* a deletion of several batches has run to its end
C8_Witness ==
    /\ del.pc = "done"
    /\ Len(del.reports) > 2

\* the place of a status in reading, parsing, storing, complete
StatusRank(status) ==
    CASE status = "reading" -> 1
      [] status = "parsing" -> 2
      [] status = "storing" -> 3
      [] status = "complete" -> 4
      [] status = "error" -> 5

(* C9: during one import the progress status never returns to an earlier   *)
(* status of reading, parsing, storing, complete, and no progress update   *)
(* follows complete or error.                                              *)
C9_StatusOrder ==
    [][(progress # <<>> /\ progress' # <<>> /\ progress' # progress) =>
          /\ StatusRank(progress'[1].status) >= StatusRank(progress[1].status)
          /\ progress[1].status \notin {"complete", "error"}]_vars

(* C10: saveMessages on N records with chunk size C: after k batches the   *)
(* store holds the first min(k*C, N) input records, the reports are        *)
(* (min(j*C, N), N) for j = 1..k, one yield follows each batch before the  *)
(* next batch starts, and the call ends after ceil(N/C) batches.           *)
C10_BatchesOfSaveMessages ==
    save.pc # "idle" =>
        LET N == Len(save.messages)
            C == save.CHUNK_SIZE
            k == save.batches
        IN /\ messagesDB = PutChunk(save.before, save.messages, save.chatId, 0,
                                    Min(k * C, N))
           /\ save.reports = [j \in 1..k |-> <<Min(j * C, N), N>>]
           /\ save.yields = IF save.pc = "yield" THEN k - 1 ELSE k
           /\ save.pc = "tx" => k * C < N /\ save.attempts = k + 1
           /\ save.pc = "done" => k * C >= N /\ (k - 1) * C < N

\* the second batch, a partial one, has been committed and reported
C10_Witness ==
    /\ save.pc = "yield"
    /\ save.batches = 2
    /\ save.CHUNK_SIZE = 2
    /\ Len(save.messages) = 3

(***************************************************************************)
(* The line loop against the text it reads.                                *)
(***************************************************************************)
RECURSIVE HeadersTo(_, _)
\* the positions of the header lines among lines[1..n], ascending
HeadersTo(lines, n) ==
    IF n = 0 THEN <<>>
    ELSE IF lines[n].kind = "header" THEN Append(HeadersTo(lines, n - 1), n)
    ELSE HeadersTo(lines, n - 1)

RECURSIVE LinesBetween(_, _, _)
\* the contents of lines[from + 1 .. to], in order
LinesBetween(lines, from, to) ==
    IF from >= to THEN <<>>
    ELSE Append(LinesBetween(lines, from, to - 1), lines[to].content)

\* the header line at position h with the lines after it up to position to
Untrimmed(lines, h, to) == <<lines[h].content>> \o LinesBetween(lines, h, to)

\* the number of lines the loop has processed so far
Processed ==
    IF parse.pc = "reading" THEN 0
    ELSE Min(parse.chunkStart + parse.CHUNK_SIZE, Len(parse.lines))

\* C11: parseWhatsAppChat outputs exactly one message per header line, in
\* line order; the content of each is its header content followed by every
\* later non-header line up to the next header (a blank line is an empty
\* line), trimmed when the message is closed, at the next header or at the
\* end of the input, and not before; the lines before the first header
\* belong to no message.
C11_OneMessagePerHeader ==
    parse.pc \in {"yield", "done"} =>
        LET lines == parse.lines
            hs == HeadersTo(lines, Processed)
            closed == IF parse.pc = "done" THEN Len(hs) ELSE Len(hs) - 1
            out == IF parse.pc = "done" THEN parse.messages ELSE parse.st.messages
            end(k) == IF k < Len(hs) THEN hs[k + 1] - 1 ELSE Len(lines)
        IN /\ Len(out) = (IF closed < 0 THEN 0 ELSE closed)
           /\ \A k \in 1..closed :
                 /\ out[k].timestamp = lines[hs[k]].ts
                 /\ out[k].sender = lines[hs[k]].sender
                 /\ out[k].content = Trim(Untrimmed(lines, hs[k], end(k)))
           /\ parse.pc = "yield" =>
                 IF Len(hs) = 0 THEN parse.st.currentMessage = <<>>
                 ELSE /\ Len(parse.st.currentMessage) = 1
                      /\ parse.st.currentMessage[1].content
                            = Untrimmed(lines, hs[Len(hs)], Processed)

\* a header, a blank line and a continuation became one message of three
\* lines
C11_Witness ==
    /\ parse.pc = "done"
    /\ \E k \in 1..Len(parse.messages) :
          /\ Len(parse.messages[k].content) = 3
          /\ parse.messages[k].content[2] = EmptyLine

\* C12: for every text and every chunk size, parseWhatsAppChat yields the
\* messages, the sender set and the isGroup of processing all lines in one
\* chunk: at every chunk boundary the output sequence, the open message and
\* the sender set are those of the lines read so far processed in one pass.
C12_ParseChunkSizeIndependent ==
    LET lines == parse.lines
        whole == ProcessLines(ParseInit, lines, 0, Len(lines))
    IN /\ parse.pc = "yield" => parse.st = ProcessLines(ParseInit, lines, 0, Processed)
       /\ parse.pc = "done" =>
             /\ parse.messages = ParseFinish(whole)
             /\ parse.st.senderSet = whole.senderSet
             /\ parse.isGroup = (Cardinality(whole.senderSet) > 2)

\* a text of three lines read one line per chunk, a boundary between a
\* header and its continuation
C12_Witness ==
    /\ parse.pc = "done"
    /\ parse.CHUNK_SIZE = 1
    /\ Len(parse.lines) >= 3
    /\ \E k \in 1..Len(parse.messages) : Len(parse.messages[k].content) >= 2

\* the AM/PM marker of a line, <<>> for none
MarkerOf(line) == Group(line, Len(line), "ampm")

\* the hour of the day a clock hour h with marker x stands for
Normalized(h, x) ==
    IF x \in {"PM", "pm"} THEN (IF h = 12 THEN 12 ELSE h + 12)
    ELSE (IF h = 12 THEN 0 ELSE h)

\* C13: for every line that starts with a 12-hour AM/PM timestamp (a date
\* written with slashes, bracketed or not),
\* tryParseMessageLine returns an instant whose hour is normalized (12 AM
\* is 0, 12 PM is 12, h PM is h + 12, h AM is h) and a remainder that
\* starts after the AM/PM marker.
C13_AmPmNormalized ==
    (/\ tryLine.pc = "returned"
     /\ MarkerOf(tryLine.line) # <<>>
     /\ Group(tryLine.line, Len(tryLine.line), "date")[1].s = "/") =>
        LET time == Group(tryLine.line, Len(tryLine.line), "time")[1]
        IN /\ tryLine.result # <<>>
           /\ tryLine.result[1].timestamp.secondOfDay
                 = 3600 * Normalized(time.a, MarkerOf(tryLine.line)[1].s) + 60 * time.b
           /\ tryLine.result[1].remainder = <<Words("A: hi")>>

\* C14: a chosen file whose name ends in .zip and whose first four bytes
\* are not 50 4B 03 04 is rejected as not a valid archive, and
\* JSZip.loadAsync is never invoked on it.
C14_BadSignatureNotExtracted ==
    (pick.pc # "idle" /\ pick.file.ext = "zip" /\ pick.file.bytes # <<80, 75, 3, 4>>) =>
        /\ ~pick.loadAsync
        /\ pick.pc # "importing"
        /\ pick.pc = "done" =>
              pick.validationResult[1] = Invalid("File is not a valid ZIP archive", "zip")

\* the strategy 2 claims of a matcher state s2 that continues s1
LaterClaims(s1, s2) == SubSeq(s2.claims, Len(s1.claims) + 1, Len(s2.claims))

\* what strategy 2 has to make of the state s1 that strategy 1 left: s2
SameDayGreedy(s1, s2) ==
    LET msgs == s1.matchedMessages
        lookup == s1.lookup
        claims == LaterClaims(s1, s2)
        todo == {i \in 1..Len(msgs) :
                    msgs[i].type = "media" /\ msgs[i].mediaFileName = NoFile}
        taken(i) == {e \in 1..Len(lookup) :
                        \/ lookup[e].matched
                        \/ \E c \in 1..Len(claims) :
                              /\ claims[c].message < i
                              /\ claims[c].file = lookup[e].file}
        cands(i) == {e \in (1..Len(lookup)) \ taken(i) :
                        /\ lookup[e].timestamp # 0
                        /\ DayOf(lookup[e].timestamp) = DayOf(msgs[i].timestamp)}
        first(i) == CHOOSE e \in cands(i) :
                        \A f \in cands(i) :
                            \/ lookup[e].timestamp < lookup[f].timestamp
                            \/ /\ lookup[e].timestamp = lookup[f].timestamp
                               /\ e <= f
        of(i) == {c \in 1..Len(claims) : claims[c].message = i}
    IN /\ \A c \in 1..(Len(claims) - 1) : claims[c].message < claims[c + 1].message
       /\ \A i \in 1..Len(msgs) :
             IF i \in todo /\ cands(i) # {}
             THEN /\ s2.matchedMessages[i].mediaFileName = lookup[first(i)].name
                  /\ \E c \in of(i) : claims[c].file = lookup[first(i)].file
                  /\ s2.lookup[first(i)].matched
                  /\ s2.lookup[first(i)].messageId = <<msgs[i].id>>
             ELSE /\ s2.matchedMessages[i] = msgs[i]
                  /\ of(i) = {}

C16_DirectReferenceBinds ==
    match.pc = "strategy2" =>
        \A i \in 1..Len(match.messages) :
            LET msg == match.messages[i]
                named == msg.content[1].file
                at == MapGet(match.st.lookup, ToLowerCase(named))
            IN (/\ msg.type = "media"
                /\ msg.content[1].text = "(file attached)"
                /\ named # NoFile
                /\ named.ext \in ParserMediaExts
                /\ at # 0) =>
                   \E c \in 1..Len(match.st.claims) :
                       /\ match.st.claims[c].strategy = 1
                       /\ match.st.claims[c].file = match.st.lookup[at].file
                       /\ match.st.claims[c].message <= i

\* the output sequence out against the input sequence in
Frame(in, out) ==
    /\ Len(out) = Len(in)
    /\ \A i \in 1..Len(in) :
          /\ out[i].id = in[i].id
          /\ out[i].timestamp = in[i].timestamp
          /\ out[i].sender = in[i].sender
          /\ out[i].content = in[i].content
          /\ out[i].type = in[i].type
          /\ out[i].mediaUrl = in[i].mediaUrl
          /\ in[i].type # "media" => out[i] = in[i]

\* C17: matchMediaToMessages returns a message sequence of the length and
\* order of its input in which id, timestamp, sender, content and type of
\* every message are unchanged and messages that are not media are
\* unchanged altogether (only mediaFileName and mediaType of media messages
\* may differ); its inputs are the same after every step of the call.
C17_MatcherFrame ==
    [][(match.pc # "idle" /\ match'.pc # "idle") =>
          /\ match'.messages = match.messages
          /\ match'.mediaFiles = match.mediaFiles
          /\ Frame(match.messages, match'.st.matchedMessages)
          /\ match'.pc = "returned" =>
                Frame(match.messages, match'.result[1].matchedMessages)]_vars

\* a call returned with a media message enriched next to a message that is
\* not media
C17_Witness ==
    /\ match.pc = "returned"
    /\ \E i, j \in 1..Len(match.messages) :
          /\ match.result[1].matchedMessages[i] # match.messages[i]
          /\ match.messages[j].type # "media"

\* C18: in every result of parseWhatsAppChat the ids of the messages are
\* pairwise distinct, as strings, also when several header lines carry the
\* same instant.
C18_IdsDistinct ==
    parse.pc = "done" =>
        \A i, j \in 1..Len(parse.messages) :
            i # j => IdString(parse.messages[i].id) # IdString(parse.messages[j].id)

\* a result with three messages of one instant
C18_Witness ==
    /\ parse.pc = "done"
    /\ Len(parse.messages) >= 3
    /\ \A i \in 1..Len(parse.messages) : parse.messages[i].timestamp = T1

\* the type, the sender and the media fields the header line at position h
\* gives its message
Classified(lines, h) == NewMessage(lines[h], 0)

\* C19: in every result of parseWhatsAppChat each message has exactly one
\* type, the one its header line gave it, whatever lines follow; a system
\* message has no sender; a media message has a sender and a header content
\* that matches a media-placeholder pattern; mediaFileName and mediaType are
\* present on media messages only.
C19_TypeInvariants ==
    parse.pc = "done" =>
        LET hs == HeadersTo(parse.lines, Len(parse.lines))
        IN /\ Len(parse.messages) = Len(hs)
           /\ \A k \in 1..Len(parse.messages) :
                 LET m == parse.messages[k]
                     header == parse.lines[hs[k]]
                 IN /\ m.type \in {"text", "media", "system"}
                    /\ m.type = Classified(parse.lines, hs[k]).type
                    /\ m.type = "system" => m.sender = NoSender
                    /\ m.type = "media" =>
                          m.sender # NoSender /\ isMediaMessage(header.content)
                    /\ (m.mediaFileName # NoFile \/ m.mediaType # NoType) =>
                          m.type = "media"

\* a result with a media message that has a continuation line and a system
\* message
C19_Witness ==
    /\ parse.pc = "done"
    /\ \E k \in 1..Len(parse.messages) :
          /\ parse.messages[k].type = "media"
          /\ Len(parse.messages[k].content) >= 2
    /\ \E k \in 1..Len(parse.messages) : parse.messages[k].type = "system"

\* what a failed batch of deleteChat leaves in the stores: the batches
\* before it are deleted, the failed batch and the batches after it are not
DeleteStoppedAtFailure ==
    /\ del.batches = del.attempts - 1
    /\ del.batchStart = del.batches * del.BATCH_SIZE
    /\ \A i \in 1..Len(del.messageIds) :
          IF i <= del.batchStart
          THEN /\ del.messageIds[i] \notin DOMAIN messagesDB
               /\ del.messageIds[i] \notin DOMAIN mediaDB
          ELSE del.messageIds[i] \in DOMAIN messagesDB

\* C20: if a delete batch of deleteChat fails, no later batch is attempted,
\* the batches already deleted stay deleted, and the caller that requested
\* the deletion is informed: the deletion does not come back to the caller
\* the way a successful one does.
C20_DeleteFailureReported ==
    del.pc = "failed" =>
        /\ DeleteStoppedAtFailure
        /\ ~del.returned


InFlight == {"parsing", "saveChat", "saveMessages", "saveMedia"}

\* the messages of the failures that can end the await the import is at
Failure ==
    IF imp.pc = "parsing" THEN {parse.error}
    ELSE IF imp.pc = "saveMessages" THEN {save.error}
    ELSE StoreErrors

ImportOutcome ==
    \/ /\ imp.pc = "complete"
       /\ imp.returned = "chat"
       /\ progress = <<Progress("complete", 100, 100, 100)>>
       /\ error = ""
       /\ ~importing
    \/ /\ imp.pc = "error"
       /\ imp.returned = "null"
       /\ progress = <<ErrorProgress(error)>>
       /\ error # ""
       /\ ~importing

WrittenYear(line) == Group(line, Len(line), "date")[1].c

\* C22: for every header line with a two-digit year y the parsed year is
\* 2000 + y when y < 50 and 1900 + y when y >= 50 (49 gives 2049, 50 gives
\* 1950); a four-digit year is taken unchanged.
C22_YearPivot ==
    (tryLine.pc = "returned" /\ tryLine.result # <<>>) =>
        LET y == WrittenYear(tryLine.line)
            year == tryLine.result[1].timestamp.year
        IN /\ (y < 100 /\ y < 50) => year = 2000 + y
           /\ (y < 100 /\ y >= 50) => year = 1900 + y
           /\ y >= 1000 => year = y

\* the line "[1.2.50, 23:59:59] A: hi" was parsed to a year of 1950
C22_Witness ==
    /\ tryLine.pc = "returned"
    /\ tryLine.result # <<>>
    /\ WrittenYear(tryLine.line) = 50
    /\ tryLine.result[1].timestamp.year = 1950


\* the stored messages whose chatId is c
MessagesOf(c) == {k \in DOMAIN messagesDB : messagesDB[k].chatId = c}

\* C23: importing a chat never changes or removes message records of a
\* chat imported earlier: once an import has succeeded and no deletion is
\* running, every stored chat c has exactly c.messageCount stored
\* messages whose chatId is c.
C23_ImportKeepsOtherChats ==
    (imp.pc = "complete" /\ del = Idle) =>
        \A c \in DOMAIN chatsDB :
            Cardinality(MessagesOf(c)) = chatsDB[c].messageCount


\* C24: once deleteChat(c) has removed the chat record of c, no step of
\* updateChatLastOpened or of handleViewAsChange (the automatic default
\* point of view included) writes a chat record with id c back to the
\* store.
C24_NoWriteBackAfterDelete ==
    [][(del.pc # "idle" /\ del.chatGone /\ del.chatId \notin DOMAIN chatsDB)
          => del.chatId \notin DOMAIN chatsDB']_vars


\* what matchMediaToMessages returned to the import in flight
ImportMatch ==
    matchMediaToMessages(
        ParseFinish(ProcessLines(ParseInit, imp.txtFile, 0, Len(imp.txtFile))),
        imp.mediaFiles)

\* C25: after a successful import with media files into an empty store, a
\* media blob is stored for a message m with file f only if the
\* correlator claimed f for m: no file of unmatchedMedia is stored, and no
\* file is stored as the media of two different messages.
C25_StoredMediaWasClaimed ==
    (imp.pc = "complete" /\ Len(imp.mediaFiles) > 0 /\ "c0" \notin DOMAIN chatsDB) =>
        /\ \A k \in DOMAIN mediaDB :
              /\ \E i \in 1..Len(ImportMatch.claims) :
                    /\ imp.finalMessages[ImportMatch.claims[i].message].id = k
                    /\ ImportMatch.claims[i].file = mediaDB[k].blob
              /\ \A j \in 1..Len(ImportMatch.unmatchedMedia) :
                    ImportMatch.unmatchedMedia[j] # mediaDB[k].blob
        /\ \A k1, k2 \in DOMAIN mediaDB :
              mediaDB[k1].blob = mediaDB[k2].blob => k1 = k2


\* C26: the saveChat of handleViewAsChange alters only the currentViewAs
\* field of the stored chat record: every other field, in particular the
\* lastOpened written by an earlier updateChatLastOpened, keeps the value
\* it had in the store.
C26_PovFrame ==
    [][(/\ pov.pc = "saveChat"
        /\ pov'.pc = "loadChats"
        /\ pov.chat[1].id \in DOMAIN chatsDB)
          => chatsDB'[pov.chat[1].id]
                = [chatsDB[pov.chat[1].id]
                     EXCEPT !.currentViewAs = pov.chat[1].currentViewAs]]_vars


\* C27: when every load that was started has settled, the messages state
\* of useMessages holds the messages of the chat id selected last, and is
\* empty when the selection is null, whatever the order in which the
\* loads settled.
C27_LatestSelectionShown ==
    loads.pending = <<>> =>
        loaded.messages = IF selectedChatId = "" THEN <<>>
                          ELSE loadMessages(messagesDB, selectedChatId)


\* the step in which deleteChat is entered and runs to its first cursor
\* request
DeleteStarts == del.pc = "idle" /\ del'.pc # "idle"

\* the step in which deleteChat's cursor runs over the messages of the chat
DeleteEnumerates == del.pc = "enumerate" /\ del'.pc # "enumerate"

\* a step in which deleteChat removes message records
DeleteRemoves == del.pc = "tx" /\ messagesDB' # messagesDB

\* C28: in deleteChat the chat record is removed before any message is
\* enumerated or removed, the enumeration is complete before the first
\* removal batch, and the total passed to every progress callback is the
\* number of message records the operation removes.
C28_DeleteOrderAndTotal ==
    [][/\ DeleteStarts =>
            /\ del'.chatId \notin DOMAIN chatsDB'
            /\ del'.chatGone
            /\ ~del'.enumerated
            /\ messagesDB' = messagesDB
       /\ DeleteEnumerates =>
            /\ del.chatGone
            /\ MessagesOf(del.chatId) = del.belonged
            /\ del.attempts = 0
       /\ DeleteRemoves =>
            /\ del.chatGone
            /\ del.enumerated
            /\ {del.messageIds[i] : i \in 1..Len(del.messageIds)} = del.belonged
       /\ del'.pc # "idle" =>
            /\ \A i \in 1..Len(del'.reports) :
                  del'.reports[i][2] = Cardinality(del'.belonged)
            /\ del'.pc = "done" =>
                  /\ del'.removed = Cardinality(del'.belonged)
                  /\ \A i \in 1..Len(del'.reports) :
                        del'.reports[i][2] = del'.removed]_vars

\* a deletion of at least two messages in more than one batch has run to
\* its end
C28_Witness ==
    /\ del.pc = "done"
    /\ del.batches >= 2
    /\ del.removed >= 2
    /\ Len(del.reports) = del.batches + 1


\* the lines of the sample that were tested against the timestamp shape
Tested(file) == Min(Len(file.sample), SampleLimit)

\* C29: validateTextFile, for a file it accepts, emits the format warning
\* exactly when fewer than 30% of the tested lines (the first 50 non-blank
\* lines at most) match; a sample whose tested lines all match never
\* produces the warning, however many non-blank lines the sample has.
C29_WarningBelowThirtyPercent ==
    (/\ pick.pc \in {"importing", "done"}
     /\ pick.file.ext = "txt"
     /\ pick.validationResult[1].valid) =>
        /\ FormatWarning \in pick.validationResult[1].warnings
              <=> 10 * validLineCount(pick.file) < 3 * Tested(pick.file)
        /\ validLineCount(pick.file) = Tested(pick.file)
              => FormatWarning \notin pick.validationResult[1].warnings


\* the chat files of a list
TxtFilesOf(files) == {files[i] : i \in {j \in 1..Len(files) : files[j].ext = "txt"}}

\* C30: when a folder holds several .txt files, the one used as the chat
\* file is the first by name in alphabetical order, whatever the order of
\* the listing, and a warning naming it is emitted.
C30_AlphabeticallyFirstTxt ==
    (/\ pick.pc \in {"importing", "done"}
     /\ Cardinality(TxtFilesOf(pick.files)) > 1
     /\ pick.validationResult[1].valid) =>
        LET used == pick.validationResult[1].txtFile[1]
        IN /\ \A f \in TxtFilesOf(pick.files) \ {used} :
                 StrLess(FileName(used), FileName(f))
           /\ FirstUsedWarning(used) \in pick.validationResult[1].warnings

=============================================================================
